---- MODULE Spec2Model ----
(***************************************************************************)
(* A model of the ML subsystem of FANTASY_BLASTER (backend/app/ml):        *)
(* the model registry, the trainer, the prediction service, the feature    *)
(* engineer and the predictors.                                            *)
(***************************************************************************)
EXTENDS Integers, Sequences, FiniteSets, TLC

(***************************************************************************)
(* Bounds of the model.                                                    *)
(***************************************************************************)
\* datetime.utcnow() is modelled by a tick counter 0..MaxNow
MaxNow == 2
\* ticks per second of the clock: versions have a resolution of one second,
\* registered_at of one tick
TicksPerSecond == 2
\* game dates are the days 0..MaxDay
MaxDay == 3
\* the lookback_days build_player_features is called with
Lookback == 2
\* the most rows the player_game_stats table holds
MaxRecords == 2
\* the min_games load_training_data is called with
MinGames == 1
\* the regressors output whole values from -MaxRaw to MaxRaw
MaxRaw == 3
\* the clock of the prediction service runs from hour 0 to hour MaxHour
MaxHour == 5

(***************************************************************************)
(* Values.                                                                 *)
(***************************************************************************)
\* the stat types a model is registered for (trainer.train_all_models)
Stats == {"fantasy_points", "points"}
\* "no value" (Python None)
None == "None"
\* no model object (Python None where a model is expected)
NoModel == [kind |-> "none", stat_type |-> None, serial |-> 0]
\* model names a caller of register_model passes
ModelNames == {"fantasy_points"}
\* versions a caller of register_model passes (None: generated)
Versions == {None, "ensemble"}
\* the kinds of model object
Kinds == {"ensemble", "xgboost"}
\* the steps of train_model that can fail after the sample-count check:
\* model.fit, _evaluate_model / _cross_validate, model.save in register_model
TrainFailures == {"fit", "evaluate", "save"}

VARIABLES
    now,          \* the wall clock, in ticks
    registry,     \* ModelRegistry._registry: the entries in dict order
    index_file,   \* the registry index file (registry.json) of the model directory
    files,        \* the model files of the model directory: path -> saved model
    last,         \* the last call on the registry or the trainer and its outcome
    svc,          \* what a PredictionService created on the directory resolved
    swap,         \* a set_active_model call in progress in another thread
    seen,         \* what a concurrent reader of the registry observed
    game_stats,   \* the player_game_stats table: player -> game date -> stat line
    today,        \* date.today(), in days
    fv,           \* the last feature vector built, and the call that built it
    out,          \* what the last call of a predictor returned or raised
    clock,        \* datetime.utcnow() of the prediction service, in hours
    service,      \* the PredictionService: whether created, and its _models
    pred_cache,   \* the prediction cache table, in insertion order
    calls,        \* the predict_player_stats calls made, with what they did
    ens,          \* an EnsemblePredictor, the file it is saved to, the last call
    batch,        \* the last batch job (load_training_data, build_batch_features,
                  \* predict_batch) and what it returned
    calc,         \* the last call of a function of dates, rows or stat lines, with
                  \* its arguments and what it returned or raised
    box           \* the box-score ingestion: the player_game_stats rows by
                  \* (player_id, game_id), the sessions at work, the reports

regVars == <<now, registry, index_file, files, last, svc>>
swapVars == <<swap, seen>>
featVars == <<game_stats, today, fv>>
predVars == <<out>>
serveVars == <<clock, service, pred_cache, calls>>
\* the variables the registry, the trainer and the swap leave alone
moreVars == <<calc, box>>
jobVars == <<batch, ens, moreVars>>
restVars == <<featVars, predVars, serveVars, jobVars>>
\* the variables the feature engineer and the data loader leave alone
notFeatVars == <<regVars, swapVars, predVars, serveVars, jobVars>>
\* the variables the predictors leave alone
notPredVars == <<regVars, swapVars, featVars, serveVars, jobVars>>
\* the variables the prediction service leaves alone
notServeVars == <<regVars, swapVars, featVars, predVars, jobVars>>
vars == <<now, registry, index_file, files, last, svc, swap, seen, game_stats, today, fv,
          out, clock, service, pred_cache, calls, batch, ens, calc, box>>

(***************************************************************************)
(* Python dict, kept as the sequence of its items in insertion order.     *)
(***************************************************************************)
Ids(reg) == {reg[i].model_id : i \in 1..Len(reg)}

IndexOf(reg, id) == CHOOSE i \in 1..Len(reg) : reg[i].model_id = id

Entry(reg, id) == reg[IndexOf(reg, id)]

\* d[key] = value: an existing key keeps its place, a new one goes last
DictSet(reg, e) ==
    IF e.model_id \in Ids(reg)
    THEN [reg EXCEPT ![IndexOf(reg, e.model_id)] = e]
    ELSE Append(reg, e)

\* del d[key]
DictDel(reg, id) ==
    LET k == IndexOf(reg, id)
    IN  [i \in 1..(Len(reg) - 1) |-> IF i < k THEN reg[i] ELSE reg[i + 1]]

(***************************************************************************)
(* ModelRegistry.                                                          *)
(***************************************************************************)
\* _generate_version: utcnow().strftime("%Y%m%d_%H%M%S")
GenerateVersion(t) == "20261103_00000" \o ToString(t \div TicksPerSecond)

\* f"{model_name}_{version}"
ModelId(model_name, version) == model_name \o "_" \o version

\* model_dir / f"{model_id}.pkl"
ModelPath(model_id) == model_id \o ".pkl"

\* the entry register_model writes
NewEntry(model, model_name, version, t) ==
    [model_id      |-> ModelId(model_name, version),
     model_name    |-> model_name,
     version       |-> version,
     path          |-> ModelPath(ModelId(model_name, version)),
     registered_at |-> t,
     stat_type     |-> model.stat_type,
     is_active     |-> TRUE]

\* register_model: the registry after the call
RegisterModel(reg, model, model_name, version, t) ==
    DictSet(reg, NewEntry(model, model_name,
                          IF version = None THEN GenerateVersion(t) ELSE version, t))

\* the id register_model returns
RegisteredId(model_name, version, t) ==
    ModelId(model_name, IF version = None THEN GenerateVersion(t) ELSE version)

\* set_active_model without the deactivation of the other entries
SetActiveModelOnlyActivates(reg, model_id) ==
    IF \A i \in 1..Len(reg) : reg[i].model_id # model_id THEN reg
    ELSE [i \in 1..Len(reg) |->
             IF reg[i].model_id = model_id
             THEN [reg[i] EXCEPT !.is_active = TRUE] ELSE reg[i]]

\* set_active_model: the registry after the whole loop
SetActiveModel(reg, model_id) ==
    IF model_id \notin Ids(reg) THEN reg
    ELSE LET st == Entry(reg, model_id).stat_type
         IN  [i \in 1..Len(reg) |->
                 IF reg[i].stat_type = st
                 THEN [reg[i] EXCEPT !.is_active = (reg[i].model_id = model_id)]
                 ELSE reg[i]]

\* delete_model: the registry after the call
DeleteModel(reg, model_id) ==
    IF model_id \notin Ids(reg) THEN reg ELSE DictDel(reg, model_id)

\* delete_model: the model files after the call
DeleteModelFiles(fs, reg, model_id, delete_file) ==
    IF model_id \in Ids(reg) /\ delete_file
       /\ Entry(reg, model_id).path \in DOMAIN fs
    THEN [p \in (DOMAIN fs) \ {Entry(reg, model_id).path} |-> fs[p]]
    ELSE fs

\* model.save(path)
SaveModel(fs, path, model) == (path :> model) @@ fs

\* _save_registry: the index file after json.dump of the registry
SaveRegistry(reg) == [valid |-> TRUE, entries |-> reg]

\* open(registry_path, "w") before anything is written: an empty file
TruncatedFile == [valid |-> FALSE, entries |-> << >>]

\* _save_registry when it fails: open raises and the file is as it was, or
\* json.dump raises and the file is left cut short; the error is logged
SaveFailures == {"open", "dump"}

FailedSave(f, failure) == IF failure = "dump" THEN TruncatedFile ELSE f

\* _load_registry: a missing file or one json.load fails on gives {}
LoadRegistry(f) == IF f.valid THEN f.entries ELSE << >>

\* the entries of a stat type that are active
ActiveOf(reg, st) ==
    {i \in 1..Len(reg) : reg[i].stat_type = st /\ reg[i].is_active}

\* get_active_model: the first active entry of the stat type in dict order,
\* else the latest registered entry of the stat type, else None
LatestByStatType(reg, st) ==
    LET m == {i \in 1..Len(reg) : reg[i].stat_type = st}
    IN  IF m = {} THEN None
        ELSE LET k == CHOOSE i \in m : \A j \in m :
                          \/ reg[j].registered_at < reg[i].registered_at
                          \/ (reg[j].registered_at = reg[i].registered_at /\ i <= j)
             IN  reg[k].model_id

GetActiveModel(reg, st) ==
    IF ActiveOf(reg, st) # {}
    THEN reg[CHOOSE i \in ActiveOf(reg, st) : \A j \in ActiveOf(reg, st) : i <= j].model_id
    ELSE LatestByStatType(reg, st)

\* _get_latest_version taking the entry of the name registered first
GetLatestVersionOldest(reg, model_name) ==
    LET m == {i \in 1..Len(reg) : reg[i].model_name = model_name}
    IN  IF m = {} THEN None
        ELSE LET k == CHOOSE i \in m : \A j \in m :
                          \/ reg[j].registered_at > reg[i].registered_at
                          \/ (reg[j].registered_at = reg[i].registered_at /\ i <= j)
             IN  reg[k].model_id

\* _get_latest_version: of the entries of the name, the one with the greatest
\* registered_at (the first of them in dict order: the sort is stable)
GetLatestVersion(reg, model_name) ==
    LET m == {i \in 1..Len(reg) : reg[i].model_name = model_name}
    IN  IF m = {} THEN None
        ELSE LET k == CHOOSE i \in m : \A j \in m :
                          \/ reg[j].registered_at < reg[i].registered_at
                          \/ (reg[j].registered_at = reg[i].registered_at /\ i <= j)
             IN  reg[k].model_id

\* the id load_model looks up
LoadModelId(reg, model_name, version) ==
    IF version # None
    THEN (IF ModelId(model_name, version) \in Ids(reg)
          THEN ModelId(model_name, version) ELSE None)
    ELSE GetLatestVersion(reg, model_name)

\* load_model: the model read of the file of the entry (EnsemblePredictor.load
\* and, when it raises, StatPredictor.load take the regressors, the weights
\* and the feature names of the file), None without entry or file
LoadModel(reg, fs, model_name, version) ==
    LET model_id == LoadModelId(reg, model_name, version)
    IN  IF model_id = None THEN NoModel
        ELSE IF Entry(reg, model_id).path \notin DOMAIN fs THEN NoModel
        ELSE fs[Entry(reg, model_id).path]

(***************************************************************************)
(* ModelTrainer.train_model.                                               *)
(***************************************************************************)
\* "if len(X_train) < 100: raise ValueError"
MinTrainSamples == 100

\* the model object train_model builds and fits at time t
TrainedModel(stat_type, model_type, t) ==
    [kind      |-> IF model_type = "ensemble" THEN "ensemble" ELSE "xgboost",
     stat_type |-> stat_type,
     serial    |-> t]

\* f"{stat_type}_{model_type}"
TrainedName(stat_type, model_type) == stat_type \o "_" \o model_type

\* why train_model raises (None: it returns): too few samples, or a failure
\* `fail` of fit, of the evaluation, or of model.save inside register_model
TrainRaises(n_train, fail) ==
    IF n_train < MinTrainSamples THEN "insufficient" ELSE fail

\* train_model registering the model before it is evaluated
TrainRegistryRegistersEarly(reg, stat_type, model_type, n_train, fail, t) ==
    IF TrainRaises(n_train, fail) \in {"insufficient", "fit"} THEN reg
    ELSE IF TrainRaises(n_train, fail) # None
    THEN RegisterModel(reg, TrainedModel(stat_type, model_type, t),
                       TrainedName(stat_type, model_type), None, t)
    ELSE SetActiveModel(
             RegisterModel(reg, TrainedModel(stat_type, model_type, t),
                           TrainedName(stat_type, model_type), None, t),
             RegisteredId(TrainedName(stat_type, model_type), None, t))

\* the registry after train_model
TrainRegistry(reg, stat_type, model_type, n_train, fail, t) ==
    IF TrainRaises(n_train, fail) # None THEN reg
    ELSE SetActiveModel(
             RegisterModel(reg, TrainedModel(stat_type, model_type, t),
                           TrainedName(stat_type, model_type), None, t),
             RegisteredId(TrainedName(stat_type, model_type), None, t))

\* the model files after train_model
TrainFiles(fs, stat_type, model_type, n_train, fail, t) ==
    IF TrainRaises(n_train, fail) # None THEN fs
    ELSE SaveModel(fs,
                   ModelPath(RegisteredId(TrainedName(stat_type, model_type), None, t)),
                   TrainedModel(stat_type, model_type, t))

(***************************************************************************)
(* PredictionService._get_model.                                           *)
(***************************************************************************)
\* model_dir / f"{stat_type}_ensemble.pkl"
ServiceModelPath(stat_type) == stat_type \o "_ensemble.pkl"

\* EnsemblePredictor.load reads save_dict["xgb_model"], ["lgb_model"], ["weights"]:
\* it raises on a file that holds anything but a saved ensemble
LoadsAsEnsemble(blob) == blob.kind = "ensemble"

\* _get_model reading the model file on every call
GetModelReloading(fs, models, stat_type) ==
    IF ServiceModelPath(stat_type) \in DOMAIN fs
       /\ LoadsAsEnsemble(fs[ServiceModelPath(stat_type)])
    THEN fs[ServiceModelPath(stat_type)]
    ELSE NoModel

\* _get_model: the model used for the stat type, None for the fallback
GetModel(fs, models, stat_type) ==
    IF stat_type \in DOMAIN models THEN models[stat_type]
    ELSE IF ServiceModelPath(stat_type) \in DOMAIN fs
            /\ LoadsAsEnsemble(fs[ServiceModelPath(stat_type)])
         THEN fs[ServiceModelPath(stat_type)]
         ELSE NoModel

(***************************************************************************)
(* Numbers of the feature vectors: the quotients pandas computes, kept     *)
(* exact as reduced fractions <<numerator, denominator>>.                  *)
(***************************************************************************)
Abs(x) == IF x < 0 THEN -x ELSE x

RECURSIVE GCD(_, _)
GCD(a, b) == IF b = 0 THEN a ELSE GCD(b, a % b)

\* n / d, d # 0
Rat(n, d) ==
    LET g == GCD(Abs(n), Abs(d))
        s == IF d < 0 THEN -1 ELSE 1
    IN  <<(s * n) \div g, (s * d) \div g>>

RatSub(x, y) == Rat(x[1] * y[2] - y[1] * x[2], x[2] * y[2])

RatMul(x, y) == Rat(x[1] * y[1], x[2] * y[2])

\* x / y, y # 0
RatDiv(x, y) == Rat(x[1] * y[2], x[2] * y[1])

RatLess(x, y) == x[1] * y[2] < y[1] * x[2]

Zero == <<0, 1>>

\* the square root of a non-negative fraction, kept as its radicand
Sqrt(x) == [sqrt_of |-> x]

(***************************************************************************)
(* The players and player_game_stats tables.                               *)
(***************************************************************************)
\* players.id
Players == {1, 2}

\* the rows of the players table: position and birth_date are nullable
PlayerRow(p) ==
    IF p = 1 THEN [id |-> 1, position |-> "PG", has_birth_date |-> TRUE, birth_date |-> 0 - 9000]
    ELSE [id |-> p, position |-> None, has_birth_date |-> FALSE, birth_date |-> 0]

\* game dates, as day numbers
Days == 0..MaxDay

\* SQL NULL in a nullable numeric column
Null == -1

\* the columns FeatureEngineer.STAT_COLUMNS of which the model keeps
StatColumns == <<"points", "assists", "turnovers", "minutes",
                 "field_goals_made", "field_goals_attempted",
                 "free_throws_attempted", "fantasy_points">>

\* RATIO_COLUMNS over the columns kept
RatioColumns == <<<<"field_goal_pct", "field_goals_made", "field_goals_attempted">>>>

\* ROLLING_WINDOWS
RollingWindows == <<3, 5, 10, 15, 30>>

\* the stat lines a game of a player can have
StatLines ==
    << [points |-> 20, assists |-> 6, turnovers |-> 2, minutes |-> 32,
        field_goals_made |-> 8, field_goals_attempted |-> 16,
        free_throws_attempted |-> 4, fantasy_points |-> 36],
       [points |-> 2, assists |-> 1, turnovers |-> 0, minutes |-> 9,
        field_goals_made |-> 1, field_goals_attempted |-> 5,
        free_throws_attempted |-> Null, fantasy_points |-> Null],
       [points |-> 11, assists |-> 3, turnovers |-> 1, minutes |-> 24,
        field_goals_made |-> 4, field_goals_attempted |-> 9,
        free_throws_attempted |-> 2, fantasy_points |-> 19] >>

\* the stat lines of the games where two are enough
TwoLines == {1, 2}

\* no row for the player on the date
NoGame == 0

\* a table without rows
EmptyStore == [p \in Players |-> [d \in Days |-> NoGame]]

\* the number of rows of the table
RowCount(store) ==
    Cardinality({pd \in Players \X Days : store[pd[1]][pd[2]] # NoGame})

\* the rows of one player in the order of their dates
RECURSIVE PlayerRows(_, _, _)
PlayerRows(store, player_id, d) ==
    IF d > MaxDay THEN << >>
    ELSE (IF store[player_id][d] = NoGame THEN << >>
          ELSE << [player_id |-> player_id, game_date |-> d,
                   line |-> StatLines[store[player_id][d]]] >>)
         \o PlayerRows(store, player_id, d + 1)

\* "s.col or 0"
OrZero(x) == IF x = Null THEN 0 ELSE x

\* the record _get_player_stats builds of a row
StatRecord(s) ==
    [game_date |-> s.game_date,
     points |-> OrZero(s.line.points),
     assists |-> OrZero(s.line.assists),
     turnovers |-> OrZero(s.line.turnovers),
     minutes |-> OrZero(s.line.minutes),
     field_goals_made |-> OrZero(s.line.field_goals_made),
     field_goals_attempted |-> OrZero(s.line.field_goals_attempted),
     free_throws_attempted |-> OrZero(s.line.free_throws_attempted),
     fantasy_points |-> OrZero(s.line.fantasy_points)]

\* the records of a sequence of rows
Records(rows) == [i \in 1..Len(rows) |-> StatRecord(rows[i])]

\* _get_player_stats with the as-of date inside the range
GetPlayerStatsThroughEndDate(store, player_id, start_date, end_date) ==
    Records(SelectSeq(PlayerRows(store, player_id, 0),
                      LAMBDA s : s.game_date >= start_date /\ s.game_date <= end_date))

\* _get_player_stats: the records of the player with
\* start_date <= game_date < end_date, sorted by game_date ascending
GetPlayerStats(store, player_id, start_date, end_date) ==
    Records(SelectSeq(PlayerRows(store, player_id, 0),
                      LAMBDA s : s.game_date >= start_date /\ s.game_date < end_date))

(***************************************************************************)
(* FeatureEngineer.  A feature vector is the dict of the code: a function  *)
(* from feature names to values.                                           *)
(***************************************************************************)
Range(seq) == {seq[i] : i \in 1..Len(seq)}

\* the dict of a set of (name, value) items with distinct names
DictOf(items) ==
    [k \in {x[1] : x \in items} |-> (CHOOSE x \in items : x[1] = k)[2]]

\* features.update(more)
Update(features, more) == more @@ features

\* stats.head(window) in the place of stats.tail(window)
FirstGames(stats, window) ==
    IF Len(stats) >= window THEN SubSeq(stats, 1, window) ELSE stats

\* stats.tail(window) if len(stats) >= window else stats
LastGames(stats, window) ==
    IF Len(stats) >= window
    THEN SubSeq(stats, Len(stats) - window + 1, Len(stats))
    ELSE stats

\* stats[col].sum()
RECURSIVE Sum(_, _)
Sum(stats, col) ==
    IF stats = << >> THEN 0 ELSE stats[1][col] + Sum(Tail(stats), col)

\* the sum of the squares of a column
RECURSIVE SumSq(_, _)
SumSq(stats, col) ==
    IF stats = << >> THEN 0
    ELSE stats[1][col] * stats[1][col] + SumSq(Tail(stats), col)

\* stats[col].mean(), stats not empty
Mean(stats, col) == Rat(Sum(stats, col), Len(stats))

\* the square of stats[col].std() (pandas: ddof = 1), len(stats) >= 2
Variance(stats, col) ==
    Rat(Len(stats) * SumSq(stats, col) - Sum(stats, col) * Sum(stats, col),
        Len(stats) * (Len(stats) - 1))

\* np.isnan(stats[col].std()): the deviation of a single value
StdIsNaN(stats) == Len(stats) < 2

\* _build_player_info_features
BuildPlayerInfoFeatures(player, today_) ==
    DictOf({ <<"player_position_pg", player.position = "PG">>,
             <<"player_position_sg", player.position = "SG">>,
             <<"player_position_sf", player.position = "SF">>,
             <<"player_position_pf", player.position = "PF">>,
             <<"player_position_c", player.position = "C">> })
    @@ ("player_age" :>
            IF player.has_birth_date
            THEN Rat((today_ - player.birth_date) * 4, 1461)
            ELSE <<27, 1>>)

\* _build_rolling_features
BuildRollingFeatures(stats) ==
    DictOf({ <<col \o "_avg_" \o ToString(w) \o "g", Mean(LastGames(stats, w), col)>> :
                 w \in Range(RollingWindows), col \in Range(StatColumns) })
    @@
    DictOf({ <<rc[1] \o "_" \o ToString(w) \o "g",
               IF Sum(LastGames(stats, w), rc[3]) > 0
               THEN Rat(Sum(LastGames(stats, w), rc[2]), Sum(LastGames(stats, w), rc[3]))
               ELSE Zero>> :
                 w \in Range(RollingWindows), rc \in Range(RatioColumns) })

\* _build_trend_features returning no feature below 10 games
BuildTrendFeaturesWithoutDefaults(stats) ==
    IF Len(stats) < 10 THEN [x \in {} |-> Zero]
    ELSE DictOf({ <<col \o "_trend",
                    IF RatLess(Zero, Mean(stats, col))
                    THEN RatDiv(RatSub(Mean(LastGames(stats, 5), col), Mean(stats, col)),
                                Mean(stats, col))
                    ELSE Zero>> : col \in Range(StatColumns) })

\* _build_trend_features
BuildTrendFeatures(stats) ==
    DictOf({ <<col \o "_trend",
               IF Len(stats) < 10 THEN Zero
               ELSE IF RatLess(Zero, Mean(stats, col))
               THEN RatDiv(RatSub(Mean(LastGames(stats, 5), col), Mean(stats, col)),
                           Mean(stats, col))
               ELSE Zero>> : col \in Range(StatColumns) })

\* _build_consistency_features
BuildConsistencyFeatures(stats) ==
    DictOf({ <<col \o "_cv",
               IF RatLess(Zero, Mean(stats, col)) /\ ~StdIsNaN(stats)
               THEN Sqrt(RatDiv(Variance(stats, col),
                                RatMul(Mean(stats, col), Mean(stats, col))))
               ELSE Sqrt(Zero)>> : col \in Range(StatColumns) })
    @@
    DictOf({ <<col \o "_std",
               IF ~StdIsNaN(stats) THEN Sqrt(Variance(stats, col)) ELSE Sqrt(Zero)>> :
                 col \in Range(StatColumns) })

\* _build_usage_features
BuildUsageFeatures(stats) ==
    DictOf({ <<"games_played", Rat(Len(stats), 1)>>,
             <<"avg_minutes_season", Mean(stats, "minutes")>>,
             <<"fga_per_game", Mean(stats, "field_goals_attempted")>>,
             <<"fta_per_game", Mean(stats, "free_throws_attempted")>>,
             <<"ast_to_ratio",
               IF Sum(stats, "turnovers") > 0
               THEN Rat(Sum(stats, "assists"), Sum(stats, "turnovers"))
               ELSE Rat(Sum(stats, "assists"), 1)>> })

\* stats["game_date"].max(): the records are sorted by date
LastGameDate(stats) == stats[Len(stats)].game_date

\* len(stats[stats["game_date"] >= since])
GamesSince(stats, since) ==
    Cardinality({i \in 1..Len(stats) : stats[i].game_date >= since})

\* _build_rest_features, stats not empty
BuildRestFeatures(stats, as_of_date) ==
    DictOf({ <<"days_rest", Rat(as_of_date - LastGameDate(stats), 1)>>,
             <<"games_last_7d", Rat(GamesSince(stats, as_of_date - 7), 1)>>,
             <<"games_last_14d", Rat(GamesSince(stats, as_of_date - 14), 1)>> })
    @@ ("back_to_back" :> (as_of_date - LastGameDate(stats) = 1))

\* _build_form_features comparing with >= and <=
BuildFormFeaturesNotStrict(stats) ==
    IF Len(stats) < 3
    THEN ("hot_streak" :> FALSE) @@ ("cold_streak" :> FALSE)
         @@ ("fantasy_momentum" :> Zero)
    ELSE LET recent_3 == LastGames(stats, 3)
             season_avg == Mean(stats, "fantasy_points")
             recent_avg == Mean(recent_3, "fantasy_points")
         IN  ("fantasy_momentum" :>
                 IF RatLess(Zero, season_avg)
                 THEN RatDiv(RatSub(recent_avg, season_avg), season_avg)
                 ELSE Zero)
             @@ ("hot_streak" :>
                    \A i \in 1..3 : ~RatLess(Rat(recent_3[i].fantasy_points, 1), season_avg))
             @@ ("cold_streak" :>
                    \A i \in 1..3 : ~RatLess(season_avg, Rat(recent_3[i].fantasy_points, 1)))

\* _build_form_features
BuildFormFeatures(stats) ==
    IF Len(stats) < 3
    THEN ("hot_streak" :> FALSE) @@ ("cold_streak" :> FALSE)
         @@ ("fantasy_momentum" :> Zero)
    ELSE LET recent_3 == LastGames(stats, 3)
             season_avg == Mean(stats, "fantasy_points")
             recent_avg == Mean(recent_3, "fantasy_points")
         IN  ("fantasy_momentum" :>
                 IF RatLess(Zero, season_avg)
                 THEN RatDiv(RatSub(recent_avg, season_avg), season_avg)
                 ELSE Zero)
             @@ ("hot_streak" :>
                    \A i \in 1..3 : RatLess(season_avg, Rat(recent_3[i].fantasy_points, 1)))
             @@ ("cold_streak" :>
                    \A i \in 1..3 : RatLess(Rat(recent_3[i].fantasy_points, 1), season_avg))

\* _get_empty_features
GetEmptyFeatures(player, today_) ==
    BuildPlayerInfoFeatures(player, today_)
    @@ DictOf({ <<col \o "_avg_" \o ToString(w) \o "g", Zero>> :
                    w \in Range(RollingWindows), col \in Range(StatColumns) })
    @@ DictOf({ <<rc[1] \o "_" \o ToString(w) \o "g", Zero>> :
                    w \in Range(RollingWindows), rc \in Range(RatioColumns) })
    @@ DictOf({ <<col \o "_trend", Zero>> : col \in Range(StatColumns) })
    @@ DictOf({ <<col \o "_cv", Sqrt(Zero)>> : col \in Range(StatColumns) })
    @@ DictOf({ <<col \o "_std", Sqrt(Zero)>> : col \in Range(StatColumns) })
    @@ DictOf({ <<"games_played", Zero>>, <<"avg_minutes_season", Zero>>,
                <<"fga_per_game", Zero>>, <<"fta_per_game", Zero>>,
                <<"ast_to_ratio", Zero>>, <<"days_rest", <<3, 1>> >>,
                <<"games_last_7d", Zero>>, <<"games_last_14d", Zero>>,
                <<"fantasy_momentum", Zero>> })
    @@ DictOf({ <<"back_to_back", FALSE>>, <<"hot_streak", FALSE>>,
                <<"cold_streak", FALSE>> })

\* the vector build_player_features assembles of the records of the window
FeaturesOf(player, stats, as_of_date, today_) ==
    IF stats = << >> THEN GetEmptyFeatures(player, today_)
    ELSE Update(Update(Update(Update(Update(Update(
             BuildPlayerInfoFeatures(player, today_),
             BuildRollingFeatures(stats)),
             BuildTrendFeatures(stats)),
             BuildConsistencyFeatures(stats)),
             BuildUsageFeatures(stats)),
             BuildRestFeatures(stats, as_of_date)),
             BuildFormFeatures(stats))

\* build_player_features(player_id, as_of_date, lookback_days) called on the
\* day today_, for a player of the players table
BuildPlayerFeatures(store, player_id, as_of_date, lookback_days, today_) ==
    FeaturesOf(PlayerRow(player_id),
               GetPlayerStats(store, player_id, as_of_date - lookback_days, as_of_date),
               as_of_date, today_)

(***************************************************************************)
(* TrainingDataLoader.load_training_data.                                  *)
(***************************************************************************)
\* TrainingDataLoader.MIN_GAMES
MIN_GAMES == 10

\* TrainingDataLoader.FEATURE_LOOKBACK
FEATURE_LOOKBACK == 90

\* "min_games or self.MIN_GAMES": no argument is passed as 0
MinGamesOr(min_games) == IF min_games = 0 THEN MIN_GAMES ELSE min_games

\* _get_eligible_players
GetEligiblePlayers(store, start_date, end_date, min_games) ==
    {p \in Players :
        Cardinality({d \in Days : /\ store[p][d] # NoGame
                                  /\ d >= start_date /\ d <= end_date}) >= min_games}

\* _get_players_on_date: the eligible players with a row on the date whose
\* fantasy_points is not NULL
GetPlayersOnDate(store, player_ids, game_date) ==
    {p \in player_ids :
        /\ store[p][game_date] # NoGame
        /\ StatLines[store[p][game_date]].fantasy_points # Null}

\* the members of a set of integers in ascending order
RECURSIVE Ascending(_)
Ascending(S) ==
    IF S = {} THEN << >>
    ELSE LET x == CHOOSE y \in S : \A z \in S : y <= z
         IN  <<x>> \o Ascending(S \ {x})

\* _get_game_dates
GetGameDates(store, start_date, end_date) ==
    Ascending({d \in Days : /\ d >= start_date /\ d <= end_date
                            /\ \E p \in Players : store[p][d] # NoGame})

\* the (player, game date) pairs the two loops of load_training_data visit,
\* in their order
RECURSIVE ExampleKeys(_, _, _)
ExampleKeys(store, player_ids, game_dates) ==
    IF game_dates = << >> THEN << >>
    ELSE LET played == Ascending(GetPlayersOnDate(store, player_ids, game_dates[1]))
         IN  [i \in 1..Len(played) |-> [player_id |-> played[i],
                                        game_date |-> game_dates[1]]]
             \o ExampleKeys(store, player_ids, Tail(game_dates))

\* the pairs load_training_data(start_date, end_date, min_games) visits
TrainingKeys(store, start_date, end_date, min_games) ==
    ExampleKeys(store,
                GetEligiblePlayers(store, start_date, end_date, MinGamesOr(min_games)),
                GetGameDates(store, start_date, end_date))

\* load_training_data: the rows of X, each with the player and the game date
\* it was built for, and the targets y
LoadTrainingData(store, start_date, end_date, min_games, today_) ==
    [i \in DOMAIN TrainingKeys(store, start_date, end_date, min_games) |->
        LET key == TrainingKeys(store, start_date, end_date, min_games)[i]
        IN  [player_id |-> key.player_id,
             game_date |-> key.game_date,
             features  |-> BuildPlayerFeatures(store, key.player_id, key.game_date,
                                               FEATURE_LOOKBACK, today_),
             target    |-> StatLines[store[key.player_id][key.game_date]].fantasy_points]]

\* the stat types the trainer loads targets for, of the columns kept
TargetStats == {"fantasy_points", "points", "assists"}

\* the value of a column in the row of the player on the date
ActualOf(store, player_id, game_date, column) ==
    StatLines[store[player_id][game_date]][column]

\* what _get_players_on_date returns: (player_id, fantasy_points) of the rows
\* of the eligible players on the date whose fantasy_points is not NULL
PlayersPlayed(store, player_ids, game_date) ==
    LET played == Ascending(GetPlayersOnDate(store, player_ids, game_date))
    IN  [i \in 1..Len(played) |->
            [player_id |-> played[i],
             actual_stat |-> StatLines[store[played[i]][game_date]].fantasy_points]]

\* features_list and targets_list before the loops
NoLists == [features_list |-> << >>, targets_list |-> << >>]

\* the inner loop of load_training_data with the target appended ahead of the
\* try block
RECURSIVE PlayersLoopTargetFirst(_, _, _, _, _, _)
PlayersLoopTargetFirst(store, played, game_date, failing, today_, lists) ==
    IF played = << >> THEN lists
    ELSE LET player_id == played[1].player_id
             targets == Append(lists.targets_list, played[1].actual_stat)
             after ==
                 IF <<player_id, game_date>> \in failing
                 THEN [lists EXCEPT !.targets_list = targets]
                 ELSE [features_list |->
                           Append(lists.features_list,
                                  [player_id |-> player_id, game_date |-> game_date,
                                   features |-> BuildPlayerFeatures(store, player_id, game_date,
                                                                    FEATURE_LOOKBACK, today_)]),
                       targets_list |-> targets]
         IN  PlayersLoopTargetFirst(store, Tail(played), game_date, failing, today_, after)

\* the inner loop of load_training_data over the players of one game date:
\* build_player_features raises for the pairs in failing, which are logged
\* and skipped; the others append their features (with the player_id and
\* game_date metadata) and their target
RECURSIVE PlayersLoop(_, _, _, _, _, _)
PlayersLoop(store, played, game_date, failing, today_, lists) ==
    IF played = << >> THEN lists
    ELSE LET player_id == played[1].player_id
             after ==
                 IF <<player_id, game_date>> \in failing THEN lists
                 ELSE [features_list |->
                           Append(lists.features_list,
                                  [player_id |-> player_id, game_date |-> game_date,
                                   features |-> BuildPlayerFeatures(store, player_id, game_date,
                                                                    FEATURE_LOOKBACK, today_)]),
                       targets_list |->
                           Append(lists.targets_list, played[1].actual_stat)]
         IN  PlayersLoop(store, Tail(played), game_date, failing, today_, after)

\* the outer loop of load_training_data over the game dates
RECURSIVE DatesLoop(_, _, _, _, _, _)
DatesLoop(store, player_ids, game_dates, failing, today_, lists) ==
    IF game_dates = << >> THEN lists
    ELSE DatesLoop(store, player_ids, Tail(game_dates), failing, today_,
                   PlayersLoop(store, PlayersPlayed(store, player_ids, game_dates[1]),
                               game_dates[1], failing, today_, lists))

\* load_training_data(start_date, end_date, stat_type, min_games): the rows
\* of X (each with the metadata it was built with) and y, named stat_type
LoadTrainingLists(store, start_date, end_date, stat_type, min_games, failing, today_) ==
    LET lists == DatesLoop(store,
                           GetEligiblePlayers(store, start_date, end_date,
                                              MinGamesOr(min_games)),
                           GetGameDates(store, start_date, end_date),
                           failing, today_, NoLists)
    IN  [X |-> lists.features_list, y |-> lists.targets_list, name |-> stat_type]

(***************************************************************************)
(* The feature engineer and the data loader on a table that changes.       *)
(***************************************************************************)
EmptyFeatures == [k \in {} |-> Zero]

NoFv == [kind |-> "none", player_id |-> 0, as_of_date |-> 0, lookback_days |-> 0,
         today |-> 0, edited |-> FALSE, features |-> EmptyFeatures]

\* whether a row of the date lies in the window of the vector held
InWindow(d) == d >= fv.as_of_date - fv.lookback_days /\ d < fv.as_of_date

\* the vector held after a row of date d changed
AfterEdit(d) ==
    IF fv.kind = "none" \/ InWindow(d) THEN NoFv ELSE [fv EXCEPT !.edited = TRUE]

(***************************************************************************)
(* The predictors.  Values are in thousandths; a call is made for one row  *)
(* (the arrays of the code are handled element by element).                *)
(***************************************************************************)
\* thousandths in 1.0
Unit == 1000

\* the outputs of an underlying regressor for the row
RawOutputs == {r * Unit : r \in (0 - MaxRaw)..MaxRaw}

\* the ensemble weights in hundredths: DEFAULT_WEIGHTS, and the ends of the
\* grid of _optimize_weights
WeightChoices == { [xgboost |-> 60, lightgbm |-> 40],
                   [xgboost |-> 30, lightgbm |-> 70],
                   [xgboost |-> 75, lightgbm |-> 25] }

\* np.clip(x, lo, None)
ClipLow(x, lo) == IF x < lo THEN lo ELSE x

\* z_score 1.645 times a value
ZTimes(x) == (1645 * x) \div Unit

\* np.sqrt of a value that is in millionths, in thousandths
RECURSIVE SqrtBetween(_, _, _)
SqrtBetween(n, lo, hi) ==
    IF lo >= hi THEN lo
    ELSE LET mid == (lo + hi + 1) \div 2
         IN  IF mid * mid <= n THEN SqrtBetween(n, mid, hi)
             ELSE SqrtBetween(n, lo, mid - 1)

NpSqrt(n) == SqrtBetween(n, 0, 46340)

NoOutput == [cls |-> None, op |-> None, raised |-> None,
             point |-> 0, lower |-> 0, upper |-> 0]

Returned(cls, op, point, lower, upper) ==
    [cls |-> cls, op |-> op, raised |-> None,
     point |-> point, lower |-> lower, upper |-> upper]

Raised(cls, op, error) == [NoOutput EXCEPT !.cls = cls, !.op = op, !.raised = error]

\* a predict that gives zeros without a model
StatPredictorPredictZeros(fitted, raw) ==
    Returned("StatPredictor", "predict", IF fitted THEN ClipLow(raw, 0) ELSE 0, 0, 0)

\* StatPredictor.predict, the regressor giving raw
StatPredictorPredict(fitted, raw) ==
    IF ~fitted THEN Raised("StatPredictor", "predict", "ValueError")
    ELSE Returned("StatPredictor", "predict", ClipLow(raw, 0), 0, 0)

\* StatPredictor.predict_with_uncertainty: the regressor gives raw, and the
\* quantile regressors, when the model has them, raw_lower and raw_upper
StatPredictorPredictWithUncertainty(fitted, quantiles, raw, raw_lower, raw_upper) ==
    IF ~fitted
    THEN Raised("StatPredictor", "predict_with_uncertainty", "ValueError")
    ELSE LET predictions == raw
             std_estimate == (predictions * 2) \div 10
             lower == IF quantiles THEN raw_lower ELSE predictions - ZTimes(std_estimate)
             upper == IF quantiles THEN raw_upper ELSE predictions + ZTimes(std_estimate)
         IN  Returned("StatPredictor", "predict_with_uncertainty",
                      predictions, ClipLow(lower, 0), ClipLow(upper, ClipLow(lower, 0)))

\* LightGBMPredictor.predict
LightGBMPredictorPredict(fitted, raw) ==
    IF ~fitted THEN Raised("LightGBMPredictor", "predict", "ValueError")
    ELSE Returned("LightGBMPredictor", "predict", ClipLow(raw, 0), 0, 0)

\* LightGBMPredictor.predict_with_uncertainty
LightGBMPredictorPredictWithUncertainty(fitted, raw) ==
    IF ~fitted
    THEN Raised("LightGBMPredictor", "predict_with_uncertainty", "ValueError")
    ELSE LET predictions == LightGBMPredictorPredict(fitted, raw).point
             std_estimate == (predictions * 2) \div 10
         IN  Returned("LightGBMPredictor", "predict_with_uncertainty",
                      predictions,
                      ClipLow(predictions - ZTimes(std_estimate), 0),
                      predictions + ZTimes(std_estimate))

\* weights["xgboost"] * xgb_pred + weights["lightgbm"] * lgb_pred
EnsemblePred(weights, xgb_pred, lgb_pred) ==
    (weights.xgboost * xgb_pred + weights.lightgbm * lgb_pred) \div 100

\* EnsemblePredictor.predict
EnsemblePredictorPredict(fitted, weights, xgb_pred, lgb_pred) ==
    IF ~fitted THEN Raised("EnsemblePredictor", "predict", "ValueError")
    ELSE Returned("EnsemblePredictor", "predict",
                  ClipLow(EnsemblePred(weights, xgb_pred, lgb_pred), 0), 0, 0)

\* EnsemblePredictor.predict_with_uncertainty: without fitted models the
\* call of predict on None raises
EnsemblePredictorPredictWithUncertainty(fitted, weights, xgb_pred, lgb_pred) ==
    IF ~fitted
    THEN Raised("EnsemblePredictor", "predict_with_uncertainty", "AttributeError")
    ELSE LET ensemble_pred == EnsemblePred(weights, xgb_pred, lgb_pred)
             model_std == Abs(xgb_pred - lgb_pred) \div 2
             base_uncertainty == (ensemble_pred * 15) \div 100
             total_uncertainty == NpSqrt(model_std * model_std
                                         + base_uncertainty * base_uncertainty)
         IN  Returned("EnsemblePredictor", "predict_with_uncertainty",
                      ensemble_pred,
                      ClipLow(ensemble_pred - ZTimes(total_uncertainty), 0),
                      ensemble_pred + ZTimes(total_uncertainty))

(***************************************************************************)
(* The weights of an EnsemblePredictor, in thousandths.                    *)
(***************************************************************************)
\* EnsemblePredictor.DEFAULT_WEIGHTS
DEFAULT_WEIGHTS == [xgboost |-> 600, lightgbm |-> 400]

\* weights=None and weights={}: both are false in "weights or DEFAULT_WEIGHTS"
NoWeights == [k \in {} |-> 0]

\* the weights arguments a caller passes to the constructor
WeightArgs == { NoWeights,
                [xgboost |-> 500, lightgbm |-> 500],
                [xgboost |-> 700, lightgbm |-> 300],
                [xgboost |-> 505, lightgbm |-> 500],
                [xgboost |-> 500, lightgbm |-> 400],
                [xgboost |-> 600, lightgbm |-> 500],
                [xgboost |-> 400, lightgbm |-> 400, catboost |-> 211] }

\* sum(weights.values())
RECURSIVE SumValues(_)
SumValues(d) ==
    IF DOMAIN d = {} THEN 0
    ELSE LET k == CHOOSE key \in DOMAIN d : TRUE
         IN  d[k] + SumValues([j \in DOMAIN d \ {k} |-> d[j]])

\* EnsemblePredictor.__init__ without the validation of the weights
EnsembleInitUnchecked(weights) ==
    [raised |-> None,
     weights |-> IF weights = NoWeights THEN DEFAULT_WEIGHTS ELSE weights]

\* EnsemblePredictor.__init__: the weights of the object, or ValueError
EnsembleInit(weights) ==
    LET w == IF weights = NoWeights THEN DEFAULT_WEIGHTS ELSE weights
    IN  IF Abs(SumValues(w) - Unit) > 10
        THEN [raised |-> "ValueError", weights |-> w]
        ELSE [raised |-> None, weights |-> w]

\* np.arange(0.3, 0.8, 0.05)
WeightGrid == {300 + 50 * i : i \in 0..9}

\* best_xgb_weight of _optimize_weights: the grid point of the least rmse, and
\* the initial 0.5 when no rmse is below infinity
BestWeights == WeightGrid \cup {500}

\* the weights _optimize_weights assigns
OptimizedWeights(best_xgb_weight) ==
    [xgboost |-> best_xgb_weight, lightgbm |-> Unit - best_xgb_weight]

\* no EnsemblePredictor yet
NoObject == [exists |-> FALSE, weights |-> NoWeights, fitted |-> FALSE]

\* no file at the path
NoPickle == [kind |-> "none", weights |-> NoWeights]

\* no call yet
NoInit == [op |-> "none", arg |-> NoWeights, raised |-> None]

\* EnsemblePredictor.save: the file written, or ValueError without models
EnsembleSave(obj, pkl) ==
    IF ~obj.fitted THEN [raised |-> "ValueError", pkl |-> pkl]
    ELSE [raised |-> None, pkl |-> [kind |-> "ensemble", weights |-> obj.weights]]

\* EnsemblePredictor.load: the object after the attributes were taken of the
\* file; open raises without a file, save_dict["xgb_model"] on a file that
\* StatPredictor.save wrote
EnsembleLoad(obj, pkl) ==
    IF pkl.kind = "none" THEN [raised |-> "FileNotFoundError", obj |-> obj]
    ELSE IF pkl.kind # "ensemble" THEN [raised |-> "KeyError", obj |-> obj]
    ELSE [raised |-> None,
          obj |-> [exists |-> TRUE, weights |-> pkl.weights, fitted |-> TRUE]]

(***************************************************************************)
(* PredictionService.predict_player_stats.                                 *)
(***************************************************************************)
\* PredictionService.CACHE_TTL_HOURS
CACHE_TTL_HOURS == 4

\* the default lookback_days of build_player_features
DefaultLookbackDays == 90

\* a fraction in thousandths
Milli(x) == (x[1] * Unit) \div x[2]

\* the square root of a fraction in thousandths, to two decimals
SqrtMilli(x) == NpSqrt((x[1] * 10000) \div x[2]) * 10

\* _build_player_features giving no features for a player without games in
\* the window
ServiceFeaturesNoneWithoutGames(store, player_id, game_date, today_) ==
    IF GetPlayerStats(store, player_id, game_date - DefaultLookbackDays, game_date) = << >>
    THEN [k \in {} |-> Zero]
    ELSE BuildPlayerFeatures(store, player_id, game_date, DefaultLookbackDays, today_)

\* _build_player_features for a player of the players table: the core
\* features (the keys the player and game-context builders add are none of
\* the keys _simple_prediction reads)
ServiceFeatures(store, player_id, game_date, today_) ==
    BuildPlayerFeatures(store, player_id, game_date, DefaultLookbackDays, today_)

\* PredictionResult(...)
PredictionResult(player_id, stat_type, prediction, lower_bound, upper_bound, confidence, as_of_date, source) ==
    [player_id |-> player_id, stat_type |-> stat_type, prediction |-> prediction,
     lower_bound |-> lower_bound, upper_bound |-> upper_bound,
     confidence |-> confidence, as_of_date |-> as_of_date, source |-> source]

\* f"{stat_type}_avg_10g"
AvgKey(stat_type) == stat_type \o "_avg_10g"

\* f"{stat_type}_std"
StdKey(stat_type) == stat_type \o "_std"

\* features.get(std_key, prediction * 0.2), in thousandths
StdOf(features, stat_type, prediction) ==
    IF StdKey(stat_type) \in DOMAIN features
    THEN SqrtMilli(features[StdKey(stat_type)].sqrt_of)
    ELSE (Milli(prediction) * 2) \div 10

\* _simple_prediction without the floor of the lower bound at zero
SimplePredictionUnfloored(player_id, stat_type, features, game_date) ==
    LET prediction == IF AvgKey(stat_type) \in DOMAIN features
                      THEN features[AvgKey(stat_type)] ELSE Zero
        std == StdOf(features, stat_type, prediction)
    IN  PredictionResult(player_id, stat_type, prediction,
                         Milli(prediction) - ZTimes(std),
                         Milli(prediction) + ZTimes(std),
                         500, game_date, "simple")

\* _simple_prediction
SimplePrediction(player_id, stat_type, features, game_date) ==
    LET prediction == IF AvgKey(stat_type) \in DOMAIN features
                      THEN features[AvgKey(stat_type)] ELSE Zero
        std == StdOf(features, stat_type, prediction)
    IN  PredictionResult(player_id, stat_type, prediction,
                         ClipLow(Milli(prediction) - ZTimes(std), 0),
                         Milli(prediction) + ZTimes(std),
                         500, game_date, "simple")

\* what the regressors of a saved ensemble output for a row
XgbPred(model) == model.serial * Unit

LgbPred(model) == (model.serial + 1) * Unit

\* 1.0 - interval_width / 2, without max and min
ConfidenceUnclamped(pred, lower, upper) ==
    LET interval_width == IF pred = 0
                          THEN (IF upper = lower THEN 0 ELSE 2 * Unit)
                          ELSE ((upper - lower) * Unit) \div pred
    IN  Unit - interval_width \div 2

\* max(0.0, min(1.0, 1.0 - interval_width / 2)), in thousandths
Confidence(pred, lower, upper) ==
    LET interval_width == IF pred = 0
                          THEN (IF upper = lower THEN 0 ELSE 2 * Unit)
                          ELSE ((upper - lower) * Unit) \div pred
        c == Unit - interval_width \div 2
    IN  IF c < 0 THEN 0 ELSE IF c > Unit THEN Unit ELSE c

\* EnsemblePredictor.predict_player of a loaded ensemble, saved with the
\* DEFAULT_WEIGHTS
PredictPlayer(model, player_id, as_of_date) ==
    LET o == EnsemblePredictorPredictWithUncertainty(
                 TRUE, [xgboost |-> 60, lightgbm |-> 40],
                 XgbPred(model), LgbPred(model))
    IN  PredictionResult(player_id, model.stat_type, Rat(o.point, Unit),
                         o.lower, o.upper, Confidence(o.point, o.lower, o.upper),
                         as_of_date, "model")

\* _predict_stat
PredictStat(fs, models, player_id, stat_type, features, game_date) ==
    IF GetModel(fs, models, stat_type) = NoModel
    THEN SimplePrediction(player_id, stat_type, features, game_date)
    ELSE PredictPlayer(GetModel(fs, models, stat_type), player_id, game_date)

\* self._models after _get_model was called for each of the stat types
ModelsAfter(fs, models, stat_types) ==
    [s \in {t \in Range(stat_types) : GetModel(fs, models, t) # NoModel}
        |-> GetModel(fs, models, s)] @@ models

\* the row _cache_prediction adds: the Prediction is given no stat_type
CacheRow(result, created_at) ==
    [player_id       |-> result.player_id,
     prediction_date |-> result.as_of_date,
     predicted_value |-> result.prediction,
     lower_bound     |-> result.lower_bound,
     upper_bound     |-> result.upper_bound,
     confidence      |-> result.confidence,
     created_at      |-> created_at]

\* hasattr(p, 'stat_type')
HasStatType(row) == "stat_type" \in DOMAIN row

\* the query of _get_cached_predictions without the cutoff on created_at
CachedRowsAnyAge(cache, player_id, game_date, utcnow) ==
    SelectSeq(cache, LAMBDA r : /\ r.player_id = player_id
                                /\ r.prediction_date = game_date)

\* the rows the query of _get_cached_predictions returns, in table order
CachedRows(cache, player_id, game_date, utcnow) ==
    SelectSeq(cache, LAMBDA r : /\ r.player_id = player_id
                                /\ r.prediction_date = game_date
                                /\ r.created_at >= utcnow - CACHE_TTL_HOURS)

\* whether _get_cached_predictions returns results
CacheHit(cache, player_id, game_date, stat_types, utcnow) ==
    LET cached == CachedRows(cache, player_id, game_date, utcnow)
        typed == SelectSeq(cached, HasStatType)
    IN  /\ cached # << >>
        /\ Range(stat_types) \subseteq {typed[i].stat_type : i \in 1..Len(typed)}
        /\ \E i \in 1..Len(typed) : typed[i].stat_type \in Range(stat_types)

\* the results _get_cached_predictions returns on a hit
CachedResults(cache, player_id, game_date, stat_types, utcnow) ==
    LET cached == CachedRows(cache, player_id, game_date, utcnow)
        hits == SelectSeq(cached, LAMBDA r : HasStatType(r)
                                             /\ r.stat_type \in Range(stat_types))
    IN  [i \in 1..Len(hits) |->
            PredictionResult(hits[i].player_id, hits[i].stat_type,
                             hits[i].predicted_value, hits[i].lower_bound,
                             hits[i].upper_bound, hits[i].confidence,
                             game_date, "cache")]

\* the results predict_player_stats computes, in the order of stat_types
ComputedResults(fs, models, features, player_id, game_date, stat_types) ==
    [i \in 1..Len(stat_types) |->
        PredictStat(fs, ModelsAfter(fs, models, SubSeq(stat_types, 1, i - 1)),
                    player_id, stat_types[i], features, game_date)]

\* the cache after the results were stored
CacheAfter(cache, results, utcnow) ==
    cache \o [i \in 1..Len(results) |-> CacheRow(results[i], utcnow)]

\* an id that is no row of the players table
NoSuchPlayer == 3

\* whether build_player_features raises for the player: ValueError for an id
\* that is not in the players table, and whatever fails for those in failing
FeaturesRaise(player_id, failing) == player_id \notin Players \/ player_id \in failing

\* build_batch_features giving up at the first player that fails
RECURSIVE BuildBatchFeaturesStopping(_, _, _, _, _, _)
BuildBatchFeaturesStopping(store, player_ids, as_of_date, lookback_days, failing, today_) ==
    IF player_ids = << >> THEN << >>
    ELSE IF FeaturesRaise(player_ids[1], failing) THEN << >>
    ELSE << [player_id |-> player_ids[1], as_of_date |-> as_of_date,
             features |-> BuildPlayerFeatures(store, player_ids[1], as_of_date,
                                              lookback_days, today_)] >>
         \o BuildBatchFeaturesStopping(store, Tail(player_ids), as_of_date,
                                       lookback_days, failing, today_)

\* build_batch_features: the rows of the DataFrame returned, one for each
\* player whose features were built, with the player_id and as_of_date added
RECURSIVE BuildBatchFeatures(_, _, _, _, _, _)
BuildBatchFeatures(store, player_ids, as_of_date, lookback_days, failing, today_) ==
    IF player_ids = << >> THEN << >>
    ELSE (IF FeaturesRaise(player_ids[1], failing) THEN << >>
          ELSE << [player_id |-> player_ids[1], as_of_date |-> as_of_date,
                   features |-> BuildPlayerFeatures(store, player_ids[1], as_of_date,
                                                    lookback_days, today_)] >>)
         \o BuildBatchFeatures(store, Tail(player_ids), as_of_date,
                               lookback_days, failing, today_)

\* the loop of predict_batch: a player gets a result unless the DataFrame has
\* no player_id column (it has no rows: KeyError), the player has no row
\* (continue), the model is None (AttributeError) or predict_player raises for
\* the player
RECURSIVE PredictBatchLoop(_, _, _, _, _)
PredictBatchLoop(batch_features, model, player_ids, game_date, failing_predict) ==
    IF player_ids = << >> THEN << >>
    ELSE (IF \/ batch_features = << >>
             \/ ~\E i \in 1..Len(batch_features) :
                    batch_features[i].player_id = player_ids[1]
             \/ model = NoModel
             \/ player_ids[1] \in failing_predict
          THEN << >>
          ELSE << PredictPlayer(model, player_ids[1], game_date) >>)
         \o PredictBatchLoop(batch_features, model, Tail(player_ids), game_date,
                             failing_predict)

\* what predict_batch(player_ids, game_date, stat_type) returns
PredictBatchResults(fs, models, store, player_ids, game_date, stat_type, failing, failing_predict, today_) ==
    PredictBatchLoop(BuildBatchFeatures(store, player_ids, game_date,
                                        DefaultLookbackDays, failing, today_),
                     GetModel(fs, models, stat_type),
                     player_ids, game_date, failing_predict)

(***************************************************************************)
(* The registry, the trainer and a service on one model directory.         *)
(***************************************************************************)
NoCall == [op |-> "none", id |-> None, ok |-> FALSE, stat_type |-> None,
           prior |-> 0, raised |-> None, model_type |-> None, model |-> NoModel]

NoSvc == [stat_type |-> None, model |-> NoModel, after |-> NoCall]

EmptyFiles == [p \in {} |-> NoModel]

NoSwap == [pc |-> "idle", id |-> None, i |-> 0, prior |-> 0]

NoSeen == [via |-> None, stat_type |-> None, active |-> 0, during |-> FALSE]

NoBatch == [kind |-> "none"]

NoEnsemble == [obj |-> NoObject, pkl |-> NoPickle, last |-> NoInit]

NoCalc == [op |-> "none"]

\* no row in player_game_stats, no session, no report
NoBox == [rows |-> << >>, sessions |-> << >>, reports |-> << >>]

Init ==
    /\ now = 0
    /\ registry = << >>
    /\ index_file = SaveRegistry(<< >>)
    /\ files = EmptyFiles
    /\ last = NoCall
    /\ svc = NoSvc
    /\ swap = NoSwap
    /\ seen = NoSeen
    /\ game_stats = EmptyStore
    /\ today = MaxDay
    /\ fv = NoFv
    /\ out = NoOutput
    /\ clock = 0
    /\ service = [created |-> FALSE, models |-> EmptyFiles]
    /\ pred_cache = << >>
    /\ calls = << >>
    /\ batch = NoBatch
    /\ ens = NoEnsemble
    /\ calc = NoCalc
    /\ box = NoBox

\* time passes
Tick ==
    /\ now < MaxNow
    /\ now' = now + 1
    /\ last' = NoCall
    /\ svc' = NoSvc
    /\ UNCHANGED <<registry, index_file, files>>
    /\ UNCHANGED <<swapVars, restVars>>

\* registry.register_model(model, model_name, version)
Register(model_name, version, stat_type, kind) ==
    /\ now < MaxNow
    /\ LET model == [kind |-> kind, stat_type |-> stat_type, serial |-> now]
       IN  /\ registry' = RegisterModel(registry, model, model_name, version, now)
           /\ files' = SaveModel(files,
                                 ModelPath(RegisteredId(model_name, version, now)), model)
           /\ last' = [NoCall EXCEPT !.op = "register", !.ok = TRUE,
                                     !.id = RegisteredId(model_name, version, now),
                                     !.stat_type = stat_type, !.model = model,
                                     !.prior = Cardinality(ActiveOf(registry, stat_type))]
    /\ index_file' = SaveRegistry(registry')
    /\ now' = now + 1
    /\ svc' = NoSvc
    /\ UNCHANGED <<swapVars, restVars>>

\* registry.set_active_model(model_id)
SetActive(model_id) ==
    /\ registry' = SetActiveModel(registry, model_id)
    /\ index_file' = IF model_id \in Ids(registry)
                   THEN SaveRegistry(registry') ELSE index_file
    /\ last' = IF model_id \in Ids(registry)
               THEN [NoCall EXCEPT !.op = "set_active", !.ok = TRUE, !.id = model_id,
                        !.stat_type = Entry(registry, model_id).stat_type,
                        !.prior = Cardinality(ActiveOf(registry,
                                      Entry(registry, model_id).stat_type))]
               ELSE [NoCall EXCEPT !.op = "set_active", !.id = model_id]
    /\ svc' = NoSvc
    /\ UNCHANGED <<now, files>>
    /\ UNCHANGED <<swapVars, restVars>>

\* registry.delete_model(model_id, delete_file)
Delete(model_id, delete_file) ==
    /\ registry' = DeleteModel(registry, model_id)
    /\ files' = DeleteModelFiles(files, registry, model_id, delete_file)
    /\ index_file' = IF model_id \in Ids(registry)
                   THEN SaveRegistry(registry') ELSE index_file
    /\ last' = [NoCall EXCEPT !.op = "delete", !.id = model_id,
                              !.ok = (model_id \in Ids(registry))]
    /\ svc' = NoSvc
    /\ UNCHANGED now
    /\ UNCHANGED <<swapVars, restVars>>

\* trainer.train_model(stat_type, model_type=model_type) on n_train loaded samples
TrainModel(stat_type, model_type, n_train, fail) ==
    /\ now < MaxNow
    /\ registry' = TrainRegistry(registry, stat_type, model_type, n_train, fail, now)
    /\ files' = TrainFiles(files, stat_type, model_type, n_train, fail, now)
    /\ index_file' = IF TrainRaises(n_train, fail) = None
                   THEN SaveRegistry(registry') ELSE index_file
    /\ last' = [NoCall EXCEPT
                   !.op = "train",
                   !.ok = (TrainRaises(n_train, fail) = None),
                   !.raised = TrainRaises(n_train, fail),
                   !.stat_type = stat_type,
                   !.model_type = model_type,
                   !.prior = Len(registry),
                   !.model = IF TrainRaises(n_train, fail) = None
                             THEN TrainedModel(stat_type, model_type, now) ELSE NoModel]
    /\ now' = now + 1
    /\ svc' = NoSvc
    /\ UNCHANGED <<swapVars, restVars>>

\* PredictionService(db, model_dir) is created and resolves the model of a stat type
ServiceResolve(stat_type) ==
    /\ svc' = [stat_type |-> stat_type,
               model     |-> GetModel(files, EmptyFiles, stat_type),
               after     |-> last]
    /\ UNCHANGED <<now, registry, index_file, files, last>>
    /\ UNCHANGED <<swapVars, restVars>>

\* an id that is not registered
UnknownId == "unknown_0"

Next ==
    \/ Tick
    \/ \E n \in ModelNames, v \in Versions, st \in Stats, k \in Kinds :
           Register(n, v, st, k)
    \/ \E id \in Ids(registry) \cup {UnknownId} : SetActive(id)
    \/ \E id \in Ids(registry) \cup {UnknownId}, df \in BOOLEAN : Delete(id, df)
    \/ \E st \in Stats, mt \in Kinds,
          n \in {MinTrainSamples - 1, MinTrainSamples},
          f \in {None} \cup TrainFailures : TrainModel(st, mt, n, f)
    \/ \E st \in Stats : ServiceResolve(st)

Spec == Init /\ [][Next]_vars

(***************************************************************************)
(* Properties of the registry, the trainer and the service.                *)
(***************************************************************************)
\* C1: after any sequence of register_model, set_active_model and delete_model
\* calls, no two entries of the same stat_type are both active.
C1_AtMostOneActivePerStat ==
    \A st \in Stats : Cardinality(ActiveOf(registry, st)) <= 1

\* C2: whatever entries of the stat type were active before (none, one or
\* several), after set_active_model(X) returned True exactly one entry of X's
\* stat_type is active, and it is X.
C2_SetActiveLeavesExactlyX ==
    (last.op = "set_active" /\ last.ok) =>
        /\ last.id \in Ids(registry)
        /\ ActiveOf(registry, last.stat_type) = {IndexOf(registry, last.id)}

\* C2 witness: set_active_model returned True on a registry in which several
\* entries of the stat type were active
C2_Witness ==
    last.op = "set_active" /\ last.ok /\ last.prior >= 2 /\ Len(registry) >= 2

\* C7: a PredictionService created after train_model registered and activated
\* an ensemble for a stat type resolves that ensemble for the stat type.
C7_ServiceUsesTrainedEnsemble ==
    (/\ svc.stat_type # None
     /\ svc.after.op = "train" /\ svc.after.ok
     /\ svc.after.model_type = "ensemble"
     /\ svc.after.stat_type = svc.stat_type)
        => svc.model = svc.after.model

\* C9: a train_model call that raises leaves the registry, in memory and on
\* disk, exactly as it was.
C9_RaisingTrainKeepsRegistry ==
    [][(last'.op = "train" /\ last'.raised # None)
          => (registry' = registry /\ index_file' = index_file)]_vars

\* C9 witness: train_model raised for too few samples on a registry that
\* holds entries
C9_Witness ==
    last.op = "train" /\ last.raised = "insufficient" /\ Len(registry) >= 1

(***************************************************************************)
(* set_active_model running in one thread, step by step, while readers of  *)
(* the same registry object and of the index file run.                     *)
(***************************************************************************)
\* one pass of "for mid, entry in self._registry.items()": entry i
SwapEntry(reg, i, model_id) ==
    IF reg[i].stat_type = Entry(reg, model_id).stat_type
    THEN [reg EXCEPT ![i].is_active = (reg[i].model_id = model_id)]
    ELSE reg

\* set_active_model(model_id) is called: the membership test and line 176
SwapBegin(model_id) ==
    /\ swap.pc = "idle"
    /\ model_id \in Ids(registry)
    /\ swap' = [pc |-> "loop", id |-> model_id, i |-> 1,
                prior |-> Cardinality(ActiveOf(registry,
                              Entry(registry, model_id).stat_type))]
    /\ UNCHANGED <<regVars, seen, restVars>>

\* the loop body for the next entry; after the last entry the loop ends
SwapStep ==
    /\ swap.pc = "loop"
    /\ registry' = SwapEntry(registry, swap.i, swap.id)
    /\ swap' = IF swap.i = Len(registry)
               THEN [swap EXCEPT !.pc = "save"]
               ELSE [swap EXCEPT !.i = swap.i + 1]
    /\ UNCHANGED <<now, index_file, files, last, svc, seen, restVars>>

\* _save_registry: open(self.registry_path, "w")
SwapOpen ==
    /\ swap.pc = "save"
    /\ index_file' = TruncatedFile
    /\ swap' = [swap EXCEPT !.pc = "dump"]
    /\ UNCHANGED <<now, registry, files, last, svc, seen, restVars>>

\* _save_registry: json.dump and close; set_active_model returns True
SwapDump ==
    /\ swap.pc = "dump"
    /\ index_file' = SaveRegistry(registry)
    /\ swap' = NoSwap
    /\ UNCHANGED <<now, registry, files, last, svc, seen, restVars>>

\* whether a set_active_model call that started with exactly one active entry
\* of the stat type is in progress
SwapInProgress(st) ==
    /\ swap.pc # "idle"
    /\ swap.prior = 1
    /\ Entry(registry, swap.id).stat_type = st

\* another thread calls list_models(stat_type) on the same registry object
ReadMemory(st) ==
    /\ seen' = [via |-> "memory", stat_type |-> st,
                active |-> Cardinality(ActiveOf(registry, st)),
                during |-> SwapInProgress(st)]
    /\ UNCHANGED <<regVars, swap, restVars>>

\* another process constructs ModelRegistry(model_dir) and lists the stat type
ReadFile(st) ==
    /\ seen' = [via |-> "file", stat_type |-> st,
                active |-> Cardinality(ActiveOf(LoadRegistry(index_file), st)),
                during |-> SwapInProgress(st)]
    /\ UNCHANGED <<regVars, swap, restVars>>

SwapNext ==
    \/ \E n \in ModelNames, v \in Versions, st \in Stats, k \in Kinds :
           swap.pc = "idle" /\ Register(n, v, st, k)
    \/ \E id \in Ids(registry) : SwapBegin(id)
    \/ SwapStep
    \/ SwapOpen
    \/ SwapDump
    \/ \E st \in Stats : ReadMemory(st)
    \/ \E st \in Stats : ReadFile(st)

SpecSwap == Init /\ [][SwapNext]_vars

\* C3: a reader that runs while set_active_model(X) is in progress, the call
\* having started with exactly one active entry of X's stat type, observes
\* exactly one active entry of that stat type.
C3_ReaderSeesExactlyOneActive ==
    seen.during => seen.active = 1

\* C3 for readers of the shared registry object alone
C3_MemoryReaderSeesOne ==
    (seen.during /\ seen.via = "memory") => seen.active = 1

\* C3 for readers of the index file alone
C3_FileReaderSeesOne ==
    (seen.during /\ seen.via = "file") => seen.active = 1

(***************************************************************************)
(* A caller of the feature engineer and of the data loader, and the table  *)
(* changing under the vector it holds.                                     *)
(***************************************************************************)
\* BoxScoreService._upsert_player_game_stat: the row of the player's game of
\* the date is created, or updated if it exists
Ingest(player_id, game_date, line) ==
    /\ game_stats[player_id][game_date] # line
    /\ game_stats[player_id][game_date] = NoGame => RowCount(game_stats) < MaxRecords
    /\ game_stats' = [game_stats EXCEPT ![player_id][game_date] = line]
    /\ fv' = AfterEdit(game_date)
    /\ UNCHANGED <<today, notFeatVars>>

\* a row of the table is deleted
RemoveRow(player_id, game_date) ==
    /\ game_stats[player_id][game_date] # NoGame
    /\ game_stats' = [game_stats EXCEPT ![player_id][game_date] = NoGame]
    /\ fv' = AfterEdit(game_date)
    /\ UNCHANGED <<today, notFeatVars>>

\* midnight: date.today() moves on
NextDay ==
    /\ today <= MaxDay
    /\ today' = today + 1
    /\ UNCHANGED <<game_stats, fv, notFeatVars>>

\* the caller, holding no vector, calls
\* FeatureEngineer(db).build_player_features(player_id, as_of_date, Lookback)
Build(player_id, as_of_date) ==
    /\ fv.kind = "none"
    /\ fv' = [kind |-> "build", player_id |-> player_id, as_of_date |-> as_of_date,
              lookback_days |-> Lookback, today |-> today, edited |-> FALSE,
              features |-> BuildPlayerFeatures(game_stats, player_id, as_of_date,
                                               Lookback, today)]
    /\ UNCHANGED <<game_stats, today, notFeatVars>>

\* the caller, holding no vector, calls
\* TrainingDataLoader(db).load_training_data(0, MaxDay, min_games=MinGames)
\* and takes row i of the features returned
LoadExample(i) ==
    /\ fv.kind = "none"
    /\ LET X == LoadTrainingData(game_stats, 0, MaxDay, MinGames, today)
       IN  /\ i \in DOMAIN X
           /\ fv' = [kind |-> "example", player_id |-> X[i].player_id,
                     as_of_date |-> X[i].game_date,
                     lookback_days |-> FEATURE_LOOKBACK, today |-> today,
                     edited |-> FALSE, features |-> X[i].features]
    /\ UNCHANGED <<game_stats, today, notFeatVars>>

\* the caller is done with the vector it holds
Return ==
    /\ fv.kind # "none"
    /\ fv' = NoFv
    /\ UNCHANGED <<game_stats, today, notFeatVars>>

FeatNext ==
    \/ \E p \in Players, d \in Days, l \in TwoLines : Ingest(p, d, l)
    \/ \E p \in Players, d \in Days : RemoveRow(p, d)
    \/ \E p \in Players, d \in Days : Build(p, d)
    \/ \E i \in 1..MaxRecords : LoadExample(i)
    \/ Return

SpecFeat == Init /\ [][FeatNext]_vars

DayNext ==
    \/ \E p \in Players, d \in Days, l \in TwoLines : Ingest(p, d, l)
    \/ \E p \in Players, d \in Days : Build(p, d)
    \/ NextDay
    \/ Return

SpecDay == Init /\ [][DayNext]_vars

\* the vector the call that built fv returns on the table as it is now, made
\* on the day today_ (for an example: of every row load_training_data builds
\* for the same player and game date)
SameVectorOn(today_) ==
    IF fv.kind = "build"
    THEN BuildPlayerFeatures(game_stats, fv.player_id, fv.as_of_date,
                             fv.lookback_days, today_) = fv.features
    ELSE LET keys == TrainingKeys(game_stats, 0, MaxDay, MinGames)
             X == LoadTrainingData(game_stats, 0, MaxDay, MinGames, today_)
         IN  \A i \in DOMAIN keys :
                 (/\ keys[i].player_id = fv.player_id
                  /\ keys[i].game_date = fv.as_of_date)
                     => X[i].features = fv.features

\* C4: a feature vector built for (player, D, L), by build_player_features or
\* as a training example of load_training_data with D its game date, is the
\* vector built after any rows with game_date >= D or game_date < D - L were
\* added, changed or removed.
C4_OnlyWindowRecordsUsed ==
    fv.kind # "none" => SameVectorOn(fv.today)

\* C4 witness: a vector built from rows of the window is held, rows of other
\* dates changed since, and a row of the as-of date itself exists
C4_Witness ==
    /\ fv.kind = "build" /\ fv.edited
    /\ game_stats[fv.player_id][fv.as_of_date] # NoGame
    /\ \E d \in Days : InWindow(d) /\ game_stats[fv.player_id][d] # NoGame

\* C4 witness for a training example
C4_ExampleWitness ==
    /\ fv.kind = "example" /\ fv.edited
    /\ \E d \in Days : InWindow(d) /\ game_stats[fv.player_id][d] # NoGame

\* C5: the same call on the same table and the same player attributes
\* returns the same vector on whatever day it is made.
C5_SameVectorOnAnyDay ==
    (fv.kind = "build" /\ ~fv.edited) => SameVectorOn(today)

(***************************************************************************)
(* Calls of the predictors.                                                *)
(***************************************************************************)
\* StatPredictor(stat_type).predict(X)
CallStatPredict(fitted, raw) ==
    /\ out' = StatPredictorPredict(fitted, raw)
    /\ UNCHANGED notPredVars

\* StatPredictor(stat_type).predict_with_uncertainty(X)
CallStatPredictWithUncertainty(fitted, quantiles, raw, raw_lower, raw_upper) ==
    /\ out' = StatPredictorPredictWithUncertainty(fitted, quantiles, raw,
                                                  raw_lower, raw_upper)
    /\ UNCHANGED notPredVars

\* LightGBMPredictor(stat_type).predict(X)
CallLightGBMPredict(fitted, raw) ==
    /\ out' = LightGBMPredictorPredict(fitted, raw)
    /\ UNCHANGED notPredVars

\* LightGBMPredictor(stat_type).predict_with_uncertainty(X)
CallLightGBMPredictWithUncertainty(fitted, raw) ==
    /\ out' = LightGBMPredictorPredictWithUncertainty(fitted, raw)
    /\ UNCHANGED notPredVars

\* EnsemblePredictor(stat_type, weights).predict(X)
CallEnsemblePredict(fitted, weights, xgb_pred, lgb_pred) ==
    /\ out' = EnsemblePredictorPredict(fitted, weights, xgb_pred, lgb_pred)
    /\ UNCHANGED notPredVars

\* EnsemblePredictor(stat_type, weights).predict_with_uncertainty(X)
CallEnsemblePredictWithUncertainty(fitted, weights, xgb_pred, lgb_pred) ==
    /\ out' = EnsemblePredictorPredictWithUncertainty(fitted, weights,
                                                      xgb_pred, lgb_pred)
    /\ UNCHANGED notPredVars

PredNext ==
    \/ \E f \in BOOLEAN, r \in RawOutputs : CallStatPredict(f, r)
    \/ \E f \in BOOLEAN, q \in BOOLEAN, r \in RawOutputs,
          rl \in RawOutputs, ru \in RawOutputs :
           CallStatPredictWithUncertainty(f, q, r, rl, ru)
    \/ \E f \in BOOLEAN, r \in RawOutputs : CallLightGBMPredict(f, r)
    \/ \E f \in BOOLEAN, r \in RawOutputs : CallLightGBMPredictWithUncertainty(f, r)
    \/ \E f \in BOOLEAN, w \in WeightChoices, x \in RawOutputs, l \in RawOutputs :
           CallEnsemblePredict(f, w, x, l)
    \/ \E f \in BOOLEAN, w \in WeightChoices, x \in RawOutputs, l \in RawOutputs :
           CallEnsemblePredictWithUncertainty(f, w, x, l)

SpecPred == Init /\ [][PredNext]_vars

\* the bounds a returned result is to respect
NonNegativeOrdered(o) ==
    o.raised = None =>
        /\ o.point >= 0
        /\ (o.op = "predict_with_uncertainty" => (o.lower >= 0 /\ o.upper >= o.lower))

\* C8: predict returns a point estimate >= 0 and predict_with_uncertainty a
\* point >= 0, a lower bound >= 0 and an upper bound >= the lower bound, for
\* each of the three predictors and whatever the regressors output.
C8_PredictionsNonNegativeOrdered ==
    NonNegativeOrdered(out)

\* C8 for predict alone, of the three predictors
C8_PredictNonNegative ==
    out.op = "predict" => NonNegativeOrdered(out)

\* C8 for LightGBMPredictor alone
C8_LightGBMNonNegativeOrdered ==
    out.cls = "LightGBMPredictor" => NonNegativeOrdered(out)

\* C8 for the bounds StatPredictor.predict_with_uncertainty returns
C8_StatPredictorBoundsOrdered ==
    (out.cls = "StatPredictor" /\ out.raised = None
     /\ out.op = "predict_with_uncertainty")
        => (out.lower >= 0 /\ out.upper >= out.lower)

(***************************************************************************)
(* A PredictionService on the tables and on the model directory.           *)
(***************************************************************************)
\* the stat types the callers request
RequestedStats == <<"fantasy_points", "points">>

\* a model file is put at the path the service reads for the stat type
Deploy(stat_type, kind) ==
    /\ files' = SaveModel(files, ServiceModelPath(stat_type),
                          [kind |-> kind, stat_type |-> stat_type, serial |-> 1])
    /\ UNCHANGED <<now, registry, index_file, last, svc>>
    /\ UNCHANGED <<swapVars, featVars, predVars, serveVars, jobVars>>

\* PredictionService(db, model_dir)
CreateService ==
    /\ ~service.created
    /\ service' = [created |-> TRUE, models |-> EmptyFiles]
    /\ UNCHANGED <<clock, pred_cache, calls>>
    /\ UNCHANGED notServeVars

\* hours pass
Wait(hours) ==
    /\ clock + hours <= MaxHour
    /\ clock' = clock + hours
    /\ UNCHANGED <<service, pred_cache, calls>>
    /\ UNCHANGED notServeVars

\* what predict_player_stats returns
PredictPlayerStats(cache, fs, models, store, player_id, game_date, stat_types, force_refresh, utcnow, today_) ==
    IF ~force_refresh /\ CacheHit(cache, player_id, game_date, stat_types, utcnow)
    THEN CachedResults(cache, player_id, game_date, stat_types, utcnow)
    ELSE IF player_id \notin Players THEN << >>
    ELSE ComputedResults(fs, models,
                         ServiceFeatures(store, player_id, game_date, today_),
                         player_id, game_date, stat_types)

\* service.predict_player_stats(player_id, None, stat_types, force_refresh)
Call(player_id, stat_types, force_refresh) ==
    /\ service.created
    /\ LET game_date == today
           hit == /\ ~force_refresh
                  /\ CacheHit(pred_cache, player_id, game_date, stat_types, clock)
           known == player_id \in Players
       IN  \E results \in {PredictPlayerStats(pred_cache, files, service.models,
                                              game_stats, player_id, game_date,
                                              stat_types, force_refresh, clock,
                                              today)} :
           /\ calls' = Append(calls,
                  [player_id      |-> player_id,
                   game_date      |-> game_date,
                   stat_types     |-> stat_types,
                   force_refresh  |-> force_refresh,
                   at             |-> clock,
                   from_cache     |-> hit,
                   built_features |-> ~hit,
                   models_used    |-> IF hit \/ ~known THEN {}
                                      ELSE DOMAIN ModelsAfter(files, service.models,
                                                              stat_types),
                   stored         |-> IF hit \/ ~known THEN {} ELSE Range(stat_types),
                   results        |-> results])
           /\ pred_cache' = IF hit THEN pred_cache
                            ELSE CacheAfter(pred_cache, results, clock)
           /\ service' = IF hit \/ ~known THEN service
                         ELSE [service EXCEPT
                                  !.models = ModelsAfter(files, @, stat_types)]
    /\ UNCHANGED clock
    /\ UNCHANGED notServeVars

\* the history is ingested and the model files are put in place, then a
\* service is created and called twice
ServeNext ==
    \/ \E d \in Days, l \in TwoLines : ~service.created /\ Ingest(1, d, l)
    \/ \E k \in Kinds : ~service.created /\ Deploy("fantasy_points", k)
    \/ CreateService
    \/ \E h \in {CACHE_TTL_HOURS, CACHE_TTL_HOURS + 1} : service.created /\ Wait(h)
    \/ \E p \in Players, f \in BOOLEAN :
           Len(calls) < 2 /\ Call(p, RequestedStats, f)

SpecServe == Init /\ [][ServeNext]_vars

\* a result without the mark of where it came from
Unmarked(results) == [i \in 1..Len(results) |-> [results[i] EXCEPT !.source = None]]

\* C6: the second of two predict_player_stats calls for the same player, date
\* and stat types, made with force_refresh = False within CACHE_TTL_HOURS of
\* a first call that produced and stored a result for every requested stat
\* type, returns the results of the first from the cache, building no
\* features and using no model.
C6_SecondCallServedFromCache ==
    (/\ Len(calls) = 2
     /\ calls[2].player_id = calls[1].player_id
     /\ calls[2].game_date = calls[1].game_date
     /\ calls[2].stat_types = calls[1].stat_types
     /\ ~calls[2].force_refresh
     /\ calls[2].at - calls[1].at <= CACHE_TTL_HOURS
     /\ calls[1].stored = Range(calls[1].stat_types)
     /\ Len(calls[1].results) = Len(calls[1].stat_types))
        => /\ calls[2].from_cache
           /\ ~calls[2].built_features
           /\ calls[2].models_used = {}
           /\ Unmarked(calls[2].results) = Unmarked(calls[1].results)

\* the average of the stat over the last 10 games of the player in the
\* default lookback before the date, 0 without games
Avg10(store, player_id, game_date, stat_type) ==
    LET history == GetPlayerStats(store, player_id,
                                  game_date - DefaultLookbackDays, game_date)
    IN  IF history = << >> THEN Zero ELSE Mean(LastGames(history, 10), stat_type)

\* C10: for every requested stat type for which no model can be loaded (no
\* model file, or a file that fails to load), predict_player_stats returns
\* for an existing player a result for that stat whose point estimate is the
\* player's {stat}_avg_10g, with lower bound >= 0 and confidence 0.5.
C10_FallbackWhenNoModel ==
    \A k \in 1..Len(calls) : \A i \in 1..Len(calls[k].stat_types) :
        GetModel(files, EmptyFiles, calls[k].stat_types[i]) = NoModel =>
            \E j \in 1..Len(calls[k].results) :
                LET r == calls[k].results[j]
                IN  /\ r.stat_type = calls[k].stat_types[i]
                    /\ r.prediction = Avg10(game_stats, calls[k].player_id,
                                            calls[k].game_date, r.stat_type)
                    /\ r.lower_bound >= 0
                    /\ r.confidence = 500

\* C10 witness: a call returned a fallback result for a player with games,
\* whose deviation exceeds the average, next to a result of a loaded model
C10_Witness ==
    \E k \in 1..Len(calls) : \E j \in 1..Len(calls[k].results) :
        LET r == calls[k].results[j]
        IN  /\ r.source = "simple"
            /\ RatLess(Zero, r.prediction)
            /\ r.lower_bound = 0
            /\ calls[k].models_used # {}

\* C10 witness for a model file that fails to load
C10_LoadFailsWitness ==
    /\ ServiceModelPath("fantasy_points") \in DOMAIN files
    /\ \E k \in 1..Len(calls) : \E j \in 1..Len(calls[k].results) :
           /\ calls[k].results[j].source = "simple"
           /\ calls[k].results[j].stat_type = "fantasy_points"

\* whether the player of the call has no record in [game_date - 90, game_date)
ColdStart(c) ==
    GetPlayerStats(game_stats, c.player_id, c.game_date - DefaultLookbackDays,
                   c.game_date) = << >>

\* the keys of the player's own attributes
InfoKeys == DOMAIN BuildPlayerInfoFeatures(PlayerRow(1), 0)

\* the streak and back-to-back flags
FlagKeys == {"back_to_back", "hot_streak", "cold_streak"}

\* the keys whose value is a standard deviation or built of one
DeviationKeys == {col \o "_std" : col \in Range(StatColumns)}
                     \cup {col \o "_cv" : col \in Range(StatColumns)}

\* the default vector: every aggregate is there and 0, days_rest is 3.0 and
\* the flags are false
IsDefaultVector(f) ==
    /\ {col \o "_avg_" \o ToString(w) \o "g" :
            col \in Range(StatColumns), w \in Range(RollingWindows)} \subseteq DOMAIN f
    /\ DeviationKeys \cup FlagKeys \cup {"days_rest", "games_played"} \subseteq DOMAIN f
    /\ f["days_rest"] = <<3, 1>>
    /\ \A k \in FlagKeys : f[k] = FALSE
    /\ \A k \in DeviationKeys : f[k] = Sqrt(Zero)
    /\ \A k \in DOMAIN f \ (InfoKeys \cup FlagKeys \cup DeviationKeys \cup {"days_rest"}) :
           f[k] = Zero

\* the stat types of the results, in their order
ResultStats(results) == [i \in 1..Len(results) |-> results[i].stat_type]

\* C14: for a player of the players table without a record in
\* [D - lookback, D), build_player_features returns the default vector, and
\* predict_player_stats returns one prediction for each requested stat.
C14_ColdStartPlayerIsPredicted ==
    \A k \in 1..Len(calls) :
        ColdStart(calls[k]) =>
            /\ IsDefaultVector(ServiceFeatures(game_stats, calls[k].player_id,
                                               calls[k].game_date, today))
            /\ ResultStats(calls[k].results) = calls[k].stat_types

\* a player whose only game is on the date itself was predicted, one stat by
\* the model and one by the recent average
C14_Witness ==
    \E k \in 1..Len(calls) :
        /\ ColdStart(calls[k])
        /\ game_stats[calls[k].player_id][calls[k].game_date] # NoGame
        /\ Len(calls[k].results) = 2
        /\ calls[k].results[1].source = "model"
        /\ calls[k].results[2].source = "simple"

\* a player without any game was predicted
C14_NoGameWitness ==
    \E k \in 1..Len(calls) :
        /\ \A d \in Days : game_stats[calls[k].player_id][d] = NoGame
        /\ Len(calls[k].results) = 2

(***************************************************************************)
(* Batch jobs on the tables: load_training_data, build_batch_features and  *)
(* predict_batch, with build_player_features raising for some items.       *)
(***************************************************************************)
\* the (player, game date) pairs that have a row
RowKeys(store) == {pd \in Players \X Days : store[pd[1]][pd[2]] # NoGame}

\* TrainingDataLoader(db).load_training_data(0, MaxDay, stat_type, MinGames),
\* where build_player_features raises for the pairs in failing
LoadTraining(stat_type, failing) ==
    /\ batch.kind = "none"
    /\ batch' = [kind |-> "load", stat_type |-> stat_type, failing |-> failing,
                 today |-> today,
                 returned |-> LoadTrainingLists(game_stats, 0, MaxDay, stat_type,
                                                MinGames, failing, today)]
    /\ UNCHANGED <<ens, moreVars, regVars, swapVars, featVars, predVars, serveVars>>

\* the game dates of the history the batch jobs run on
BatchDays == {0, 1}

\* the lists of player ids the callers of the batch jobs pass
BatchPlayerIds == {<<1, 2>>, <<2>>, <<NoSuchPlayer, 1>>, << >>}

\* FeatureEngineer(db).build_batch_features(player_ids, today), where
\* build_player_features raises for the players in failing
BuildBatch(player_ids, failing) ==
    /\ batch.kind = "none"
    /\ batch' = [kind |-> "build", player_ids |-> player_ids, failing |-> failing,
                 today |-> today,
                 returned |-> BuildBatchFeatures(game_stats, player_ids, today,
                                                 DefaultLookbackDays, failing, today)]
    /\ UNCHANGED <<ens, moreVars, regVars, swapVars, featVars, predVars, serveVars>>

\* service.predict_batch(player_ids, None, stat_type), where
\* build_player_features raises for the players in failing and
\* predict_player for those in failing_predict
PredictBatch(player_ids, stat_type, failing, failing_predict) ==
    /\ service.created
    /\ batch.kind = "none"
    /\ \E results \in {PredictBatchResults(files, service.models, game_stats,
                                           player_ids, today, stat_type, failing,
                                           failing_predict, today)} :
           /\ batch' = [kind |-> "predict", player_ids |-> player_ids,
                        stat_type |-> stat_type, failing |-> failing,
                        failing_predict |-> failing_predict, today |-> today,
                        models |-> service.models, returned |-> results]
           /\ pred_cache' = CacheAfter(pred_cache, results, clock)
    /\ service' = [service EXCEPT !.models = ModelsAfter(files, @, <<stat_type>>)]
    /\ UNCHANGED <<ens, moreVars, clock, calls, regVars, swapVars, featVars, predVars>>

\* the caller is done with what the job returned
Done ==
    /\ batch.kind # "none"
    /\ batch' = NoBatch
    /\ UNCHANGED <<ens, moreVars, regVars, swapVars, featVars, predVars, serveVars>>

\* the history is ingested and the loader and the feature engineer are called
\* on it; then a model file may be put in place and a service is created, of
\* which predict_batch is called
BatchNext ==
    \/ \E p \in Players, d \in BatchDays, l \in 1..Len(StatLines) :
           /\ batch.kind = "none" /\ ~service.created /\ files = EmptyFiles
           /\ Ingest(p, d, l)
    \/ \E s \in TargetStats, failing \in SUBSET RowKeys(game_stats) :
           ~service.created /\ files = EmptyFiles /\ LoadTraining(s, failing)
    \/ \E ids \in BatchPlayerIds, failing \in SUBSET {1} :
           ~service.created /\ files = EmptyFiles /\ BuildBatch(ids, failing)
    \/ \E k \in Kinds :
           /\ batch.kind = "none" /\ ~service.created /\ files = EmptyFiles
           /\ Deploy("fantasy_points", k)
    \/ batch.kind = "none" /\ CreateService
    \/ \E ids \in BatchPlayerIds, failing \in SUBSET {1}, failing_predict \in SUBSET {2} :
           pred_cache = << >> /\ PredictBatch(ids, "fantasy_points", failing, failing_predict)
    \/ Done

SpecBatch == Init /\ [][BatchNext]_vars

\* C11: every training example load_training_data(start, end, target_stat,
\* min_games) returns has as its target the value of target_stat in the row of
\* the example's player on the example's game date.
C11_TargetIsTheRequestedStat ==
    batch.kind = "load" =>
        \A i \in DOMAIN batch.returned.y :
            i \in DOMAIN batch.returned.X =>
                batch.returned.y[i] =
                    ActualOf(game_stats, batch.returned.X[i].player_id,
                             batch.returned.X[i].game_date, batch.stat_type)

\* with target_stat = fantasy_points the target is that of the row
C11_FantasyPointsTarget ==
    (batch.kind = "load" /\ batch.stat_type = "fantasy_points") =>
        C11_TargetIsTheRequestedStat

\* the ids of the players the results are for, in their order
ResultIds(results) == [i \in 1..Len(results) |-> results[i].player_id]

\* the requested ids that are rows of the players table, in their order
ExistingIds(player_ids) == SelectSeq(player_ids, LAMBDA p : p \in Players)

\* C12: predict_batch(player_ids, date, stat), none of whose players fails,
\* returns exactly one result for each requested id that is in the players
\* table and none for any other id, with or without a model for the stat.
C12_OneResultPerExistingPlayer ==
    (/\ batch.kind = "predict"
     /\ batch.failing = {} /\ batch.failing_predict = {}) =>
        ResultIds(batch.returned) = ExistingIds(batch.player_ids)

\* with a model for the stat, one result per existing player
C12_WithModelOneResultEach ==
    (/\ batch.kind = "predict"
     /\ batch.failing = {} /\ batch.failing_predict = {}
     /\ GetModel(files, batch.models, batch.stat_type) # NoModel) =>
        ResultIds(batch.returned) = ExistingIds(batch.player_ids)

\* the members of a sequence at the indices of a set, in their order
RECURSIVE Keep(_, _, _)
Keep(seq, indices, i) ==
    IF i > Len(seq) THEN << >>
    ELSE (IF i \in indices THEN <<seq[i]>> ELSE << >>) \o Keep(seq, indices, i + 1)

\* what the job of batch returns when none of its items fails and the items
\* that failed are left out of the batch
AsIfLeftOut ==
    IF batch.kind = "load"
    THEN LET all == LoadTrainingLists(game_stats, 0, MaxDay, batch.stat_type,
                                      MinGames, {}, batch.today)
             kept == {i \in DOMAIN all.X :
                         <<all.X[i].player_id, all.X[i].game_date>> \notin batch.failing}
         IN  [X |-> Keep(all.X, kept, 1), y |-> Keep(all.y, kept, 1),
              name |-> batch.stat_type]
    ELSE IF batch.kind = "build"
    THEN BuildBatchFeatures(game_stats,
                            SelectSeq(batch.player_ids,
                                      LAMBDA p : p \notin batch.failing),
                            batch.today, DefaultLookbackDays, {}, batch.today)
    ELSE PredictBatchResults(files, batch.models, game_stats,
                             SelectSeq(batch.player_ids,
                                       LAMBDA p : p \notin batch.failing
                                                  /\ p \notin batch.failing_predict),
                             batch.today, batch.stat_type, {}, {}, batch.today)

\* C13: load_training_data, build_batch_features and predict_batch return
\* normally when the processing of some of their items fails, and return
\* what they return for the batch without the failing items.
C13_FailingItemsAreSkipped ==
    batch.kind # "none" => batch.returned = AsIfLeftOut

\* load_training_data returned examples although an item failed
C13_Witness ==
    /\ batch.kind = "load"
    /\ batch.failing # {}
    /\ batch.returned.X # << >>
    /\ \E i \in DOMAIN LoadTrainingLists(game_stats, 0, MaxDay, batch.stat_type,
                                         MinGames, {}, batch.today).X :
           LET x == LoadTrainingLists(game_stats, 0, MaxDay, batch.stat_type,
                                      MinGames, {}, batch.today).X[i]
           IN  <<x.player_id, x.game_date>> \in batch.failing

\* build_batch_features returned a row although a player failed
C13_BuildWitness ==
    /\ batch.kind = "build"
    /\ \E i \in 1..Len(batch.player_ids) :
           FeaturesRaise(batch.player_ids[i], batch.failing)
    /\ batch.returned # << >>

\* predict_batch returned a result although predict_player failed for a player
C13_PredictWitness ==
    /\ batch.kind = "predict"
    /\ \E i \in 1..Len(batch.player_ids) : batch.player_ids[i] \in batch.failing_predict
    /\ batch.returned # << >>

\* C20: the examples load_training_data returns are in non-decreasing order
\* of game date, and the i-th target is the one read of the row of the
\* player and game date the i-th feature row was built for.
C20_ExamplesAscendingAndAligned ==
    batch.kind = "load" =>
        LET X == batch.returned.X
            y == batch.returned.y
        IN  /\ Len(X) = Len(y)
            /\ \A i, j \in DOMAIN X : i < j => X[i].game_date <= X[j].game_date
            /\ \A i \in DOMAIN X :
                   /\ i \in DOMAIN y
                   /\ y[i] = ActualOf(game_stats, X[i].player_id, X[i].game_date,
                                      "fantasy_points")

\* examples of two game dates with different targets were returned
C20_Witness ==
    /\ batch.kind = "load"
    /\ \E i, j \in DOMAIN batch.returned.X :
           /\ batch.returned.X[i].game_date < batch.returned.X[j].game_date
           /\ batch.returned.y[i] # batch.returned.y[j]

(***************************************************************************)
(* An EnsemblePredictor that is constructed, fitted, saved and loaded.     *)
(***************************************************************************)
\* EnsemblePredictor(stat_type, weights): the caller keeps the object it had
\* when the constructor raises
Construct(weights) ==
    /\ LET r == EnsembleInit(weights)
       IN  ens' = [ens EXCEPT
                      !.obj = IF r.raised # None THEN @
                              ELSE [exists |-> TRUE, weights |-> r.weights,
                                    fitted |-> FALSE],
                      !.last = [op |-> "init", arg |-> weights, raised |-> r.raised]]
    /\ UNCHANGED <<batch, moreVars, regVars, swapVars, featVars, predVars, serveVars>>

\* fit(X, y, optimize_weights=optimize), the grid search ending at best
Fit(optimize, best) ==
    /\ ens.obj.exists
    /\ ens' = [ens EXCEPT
                  !.obj = [exists |-> TRUE,
                           weights |-> IF optimize THEN OptimizedWeights(best)
                                       ELSE @.weights,
                           fitted |-> TRUE],
                  !.last = [op |-> "fit", arg |-> NoWeights, raised |-> None]]
    /\ UNCHANGED <<batch, moreVars, regVars, swapVars, featVars, predVars, serveVars>>

\* save(path)
Save ==
    /\ ens.obj.exists
    /\ LET r == EnsembleSave(ens.obj, ens.pkl)
       IN  ens' = [ens EXCEPT
                      !.pkl = r.pkl,
                      !.last = [op |-> "save", arg |-> NoWeights, raised |-> r.raised]]
    /\ UNCHANGED <<batch, moreVars, regVars, swapVars, featVars, predVars, serveVars>>

\* a StatPredictor is saved to the path
SaveStatPredictor ==
    /\ ens.pkl.kind # "xgboost"
    /\ ens' = [ens EXCEPT
                  !.pkl = [kind |-> "xgboost", weights |-> NoWeights],
                  !.last = [op |-> "save", arg |-> NoWeights, raised |-> None]]
    /\ UNCHANGED <<batch, moreVars, regVars, swapVars, featVars, predVars, serveVars>>

\* load(path)
Load ==
    /\ ens.obj.exists
    /\ LET r == EnsembleLoad(ens.obj, ens.pkl)
       IN  ens' = [ens EXCEPT
                      !.obj = r.obj,
                      !.last = [op |-> "load", arg |-> NoWeights, raised |-> r.raised]]
    /\ UNCHANGED <<batch, moreVars, regVars, swapVars, featVars, predVars, serveVars>>

EnsNext ==
    \/ \E w \in WeightArgs : Construct(w)
    \/ \E o \in BOOLEAN, b \in BestWeights : Fit(o, b)
    \/ Save
    \/ SaveStatPredictor
    \/ Load

SpecEns == Init /\ [][EnsNext]_vars

\* C15: the weights of an EnsemblePredictor sum to 1.0 within 0.01 after
\* construction, after fit with or without weight optimisation and after
\* load; the constructor raises ValueError for weights whose sum is further
\* than 0.01 from 1.0.
C15_WeightsSumToOne ==
    /\ ens.obj.exists => Abs(SumValues(ens.obj.weights) - Unit) <= 10
    /\ (/\ ens.last.op = "init"
        /\ ens.last.arg # NoWeights
        /\ Abs(SumValues(ens.last.arg) - Unit) > 10) => ens.last.raised = "ValueError"

\* an object was loaded of a file saved with optimised weights
C15_Witness ==
    /\ ens.last.op = "load"
    /\ ens.last.raised = None
    /\ ens.obj.weights \notin WeightArgs \cup {DEFAULT_WEIGHTS}

\* the constructor raised
C15_RaisedWitness ==
    /\ ens.last.op = "init"
    /\ ens.last.raised = "ValueError"

(***************************************************************************)
(* load_model on the registry of Spec.                                     *)
(***************************************************************************)
\* the name the last register_model call was made with
LastName ==
    IF last.op = "train" THEN TrainedName(last.stat_type, last.model_type)
    ELSE CHOOSE n \in ModelNames : TRUE

\* the names models are registered under
RegisteredNames == {registry[i].model_name : i \in 1..Len(registry)}

RegisterUnsaved(model_name, version, stat_type, kind, failure) ==
    /\ now < MaxNow
    /\ LET model == [kind |-> kind, stat_type |-> stat_type, serial |-> now]
       IN  /\ registry' = RegisterModel(registry, model, model_name, version, now)
           /\ files' = SaveModel(files,
                                 ModelPath(RegisteredId(model_name, version, now)), model)
           /\ last' = [NoCall EXCEPT !.op = "register", !.ok = TRUE,
                                     !.id = RegisteredId(model_name, version, now),
                                     !.stat_type = stat_type, !.model = model,
                                     !.prior = Cardinality(ActiveOf(registry, stat_type))]
    /\ index_file' = FailedSave(index_file, failure)
    /\ now' = now + 1
    /\ svc' = NoSvc
    /\ UNCHANGED <<swapVars, restVars>>

\* set_active_model of a registered id whose _save_registry fails: True is
\* returned
SetActiveUnsaved(model_id, failure) ==
    /\ model_id \in Ids(registry)
    /\ registry' = SetActiveModel(registry, model_id)
    /\ index_file' = FailedSave(index_file, failure)
    /\ last' = [NoCall EXCEPT !.op = "set_active", !.ok = TRUE, !.id = model_id,
                   !.stat_type = Entry(registry, model_id).stat_type,
                   !.prior = Cardinality(ActiveOf(registry,
                                 Entry(registry, model_id).stat_type))]
    /\ svc' = NoSvc
    /\ UNCHANGED <<now, files>>
    /\ UNCHANGED <<swapVars, restVars>>

\* delete_model of a registered id whose _save_registry fails: True is returned
DeleteUnsaved(model_id, delete_file, failure) ==
    /\ model_id \in Ids(registry)
    /\ registry' = DeleteModel(registry, model_id)
    /\ files' = DeleteModelFiles(files, registry, model_id, delete_file)
    /\ index_file' = FailedSave(index_file, failure)
    /\ last' = [NoCall EXCEPT !.op = "delete", !.id = model_id, !.ok = TRUE]
    /\ svc' = NoSvc
    /\ UNCHANGED now
    /\ UNCHANGED <<swapVars, restVars>>

IndexNext ==
    \/ \E n \in ModelNames, v \in Versions, st \in Stats, k \in Kinds :
           Register(n, v, st, k)
    \/ \E id \in Ids(registry) \cup {UnknownId} : SetActive(id)
    \/ \E id \in Ids(registry) \cup {UnknownId}, df \in BOOLEAN : Delete(id, df)
    \/ \E n \in ModelNames, v \in Versions, st \in Stats, k \in Kinds,
          f \in SaveFailures : RegisterUnsaved(n, v, st, k, f)
    \/ \E id \in Ids(registry), f \in SaveFailures : SetActiveUnsaved(id, f)
    \/ \E id \in Ids(registry), df \in BOOLEAN, f \in SaveFailures :
           DeleteUnsaved(id, df, f)

SpecIndex == Init /\ [][IndexNext]_vars

\* C17: after every register_model, set_active_model and delete_model call
\* that returned a model id or True, the index file holds the in-memory
\* registry: a ModelRegistry constructed on the directory loads the same
\* entries with the same is_active flags.
C17_IndexFileHoldsRegistry ==
    (last.op \in {"register", "set_active", "delete"} /\ last.ok) =>
        /\ index_file = SaveRegistry(registry)
        /\ LoadRegistry(index_file) = registry

\* with every _save_registry succeeding the index file holds the registry
C17_SavedWhenWritesSucceed ==
    /\ index_file = SaveRegistry(registry)
    /\ LoadRegistry(index_file) = registry

(***************************************************************************)
(* A PredictionService on a model directory a ModelRegistry writes to.     *)
(***************************************************************************)
\* whether the file the service reads for the stat type loads
Loadable(fs, stat_type) ==
    /\ ServiceModelPath(stat_type) \in DOMAIN fs
    /\ LoadsAsEnsemble(fs[ServiceModelPath(stat_type)])

\* the registry registers, activates and deletes models, among them the file
\* fantasy_points_ensemble.pkl, while a service is created and called twice
ModelsNext ==
    \/ \E v \in Versions, k \in Kinds :
           Register("fantasy_points", v, "fantasy_points", k)
    \/ \E id \in Ids(registry) : SetActive(id)
    \/ \E id \in Ids(registry), df \in BOOLEAN : Delete(id, df)
    \/ CreateService
    \/ \E p \in Players, f \in BOOLEAN :
           Len(calls) < 2 /\ Call(p, RequestedStats, f)

SpecModels == Init /\ [][ModelsNext]_vars

\* what a call that computes its results does with self._models, for the
\* stat type at position i
UsesCachedOrLoads(c, i) ==
    LET t == c.stat_types[i]
    IN  IF t \in DOMAIN service.models
        THEN c.results[i] = PredictPlayer(service.models[t], c.player_id, c.game_date)
        ELSE IF Loadable(files, t)
        THEN /\ t \in DOMAIN service'.models
             /\ service'.models[t] = files[ServiceModelPath(t)]
             /\ c.results[i] = PredictPlayer(files[ServiceModelPath(t)],
                                             c.player_id, c.game_date)
        ELSE /\ t \notin DOMAIN service'.models
             /\ c.results[i].source = "simple"

\* C18: within one PredictionService the model cache is filled lazily and
\* never invalidated. A model loaded for a stat type stays the model of that
\* stat type through every step, whatever register_model, set_active_model
\* and delete_model do; every prediction of a stat type that has a loaded
\* model is made by that model; a stat type whose load failed is not cached,
\* and the load is tried again by the next request, whose result is that of
\* the file then found.
C18_ModelCacheNeverInvalidated ==
    [][/\ \A t \in DOMAIN service.models :
              /\ service.models[t] # NoModel
              /\ t \in DOMAIN service'.models
              /\ service'.models[t] = service.models[t]
       /\ (Len(calls') = Len(calls) + 1) =>
              LET c == calls'[Len(calls')]
              IN  (~c.from_cache /\ c.player_id \in Players) =>
                      /\ Len(c.results) = Len(c.stat_types)
                      /\ \A i \in 1..Len(c.stat_types) : UsesCachedOrLoads(c, i)]_vars

\* C18 witness: a call used the model loaded by an earlier call after the
\* registry had replaced or deleted the file it was loaded from
C18_Witness ==
    /\ Len(calls) >= 2
    /\ "fantasy_points" \in DOMAIN service.models
    /\ "fantasy_points" \in calls[1].models_used
    /\ ~Loadable(files, "fantasy_points")
          \/ files[ServiceModelPath("fantasy_points")] # service.models["fantasy_points"]
    /\ calls[Len(calls)].results[1] =
           PredictPlayer(service.models["fantasy_points"],
                         calls[Len(calls)].player_id, calls[Len(calls)].game_date)
    /\ calls[Len(calls)].results[1] # calls[1].results[1]
          \/ calls[Len(calls)].player_id = calls[1].player_id

\* C18 witness for the retry: the load failed in one call and succeeded in
\* the next
C18_RetryWitness ==
    /\ Len(calls) >= 2
    /\ calls[1].results[1].source = "simple"
    /\ "fantasy_points" \notin calls[1].models_used
    /\ calls[2].results[1].source = "model"
    /\ "fantasy_points" \in calls[2].models_used

(***************************************************************************)
(* The prediction cache with rows that carry a stat_type: the case         *)
(* _get_cached_predictions tests with hasattr(p, 'stat_type').             *)
(***************************************************************************)
\* rows with a stat_type that are stored besides those of _cache_prediction
MaxTypedRows == 2

\* a row of the predictions table that has a stat_type
TypedRow(player_id, stat_type, created_at, game_date) ==
    [player_id       |-> player_id,
     prediction_date |-> game_date,
     predicted_value |-> Rat(created_at + 1, 1),
     lower_bound     |-> created_at * Unit,
     upper_bound     |-> (created_at + 2) * Unit,
     confidence      |-> 900,
     created_at      |-> created_at,
     stat_type       |-> stat_type]

\* a row with a stat_type is added to the predictions table
StoreTyped(player_id, stat_type) ==
    /\ Len(SelectSeq(pred_cache, HasStatType)) < MaxTypedRows
    /\ pred_cache' = Append(pred_cache, TypedRow(player_id, stat_type, clock, today))
    /\ UNCHANGED <<clock, service, calls>>
    /\ UNCHANGED notServeVars

\* the stat types of a request
RequestLists == {<<"fantasy_points">>, RequestedStats}

\* rows are stored and hours pass while a service is called twice
CacheNext ==
    \/ CreateService
    \/ \E st \in Range(RequestedStats) : service.created /\ StoreTyped(1, st)
    \/ \E h \in {CACHE_TTL_HOURS, CACHE_TTL_HOURS + 1} : service.created /\ Wait(h)
    \/ \E sts \in RequestLists, f \in BOOLEAN :
           Len(calls) < 2 /\ Call(1, sts, f)

SpecCache == Init /\ [][CacheNext]_vars

\* whether the result is that of a row of the table created at or after the
\* cutoff
FromFreshRow(result, cache, cutoff) ==
    \E i \in 1..Len(cache) :
        /\ HasStatType(cache[i])
        /\ cache[i].created_at >= cutoff
        /\ cache[i].player_id = result.player_id
        /\ cache[i].prediction_date = result.as_of_date
        /\ cache[i].stat_type = result.stat_type
        /\ cache[i].predicted_value = result.prediction
        /\ cache[i].lower_bound = result.lower_bound
        /\ cache[i].upper_bound = result.upper_bound

\* C19: predict_player_stats never returns a cached prediction created more
\* than CACHE_TTL_HOURS before the request and never returns cached results
\* when force_refresh is true: what a call returns from the cache are rows
\* created within CACHE_TTL_HOURS before it, by a call without force_refresh;
\* every other call builds the features and computes its results.
C19_NoStaleOrForcedCacheResults ==
    [][(Len(calls') = Len(calls) + 1) =>
          LET c == calls'[Len(calls')]
          IN  /\ c.force_refresh => ~c.from_cache
              /\ c.from_cache =>
                     /\ c.results # << >>
                     /\ \A j \in 1..Len(c.results) :
                            FromFreshRow(c.results[j], pred_cache,
                                         clock - CACHE_TTL_HOURS)
              /\ ~c.from_cache =>
                     /\ c.built_features
                     /\ c.results = ComputedResults(
                            files, service.models,
                            ServiceFeatures(game_stats, c.player_id, c.game_date, today),
                            c.player_id, c.game_date, c.stat_types)
                     /\ \A j \in 1..Len(c.results) : c.results[j].source # "cache"]_vars

\* whether the table holds a row with a stat_type for every stat type of the
\* call, of its player and date, created before the call
RowsForEveryStat(c) ==
    \A t \in Range(c.stat_types) : \E i \in 1..Len(pred_cache) :
        /\ HasStatType(pred_cache[i])
        /\ pred_cache[i].stat_type = t
        /\ pred_cache[i].player_id = c.player_id
        /\ pred_cache[i].prediction_date = c.game_date
        /\ pred_cache[i].created_at < c.at

\* C19 witness: a call without force_refresh found rows for every requested
\* stat type, all older than CACHE_TTL_HOURS, and computed its results
C19_Witness ==
    \E k \in 1..Len(calls) :
        /\ ~calls[k].force_refresh
        /\ RowsForEveryStat(calls[k])
        /\ \A i \in 1..Len(pred_cache) :
               HasStatType(pred_cache[i]) =>
                   pred_cache[i].created_at < calls[k].at - CACHE_TTL_HOURS
        /\ ~calls[k].from_cache
        /\ calls[k].results # << >>

\* C19 witness for force_refresh: rows within CACHE_TTL_HOURS for every requested
\* stat type, and the call computed its results
C19_ForcedWitness ==
    \E k \in 1..Len(calls) :
        /\ calls[k].force_refresh
        /\ RowsForEveryStat(calls[k])
        /\ \A i \in 1..Len(pred_cache) :
               HasStatType(pred_cache[i]) =>
                   pred_cache[i].created_at >= calls[k].at - CACHE_TTL_HOURS
        /\ ~calls[k].from_cache
        /\ calls[k].results # << >>

\* C19 witness for a call served from the cache
C19_HitWitness ==
    \E k \in 1..Len(calls) :
        /\ calls[k].from_cache
        /\ Len(calls[k].results) = 2

(***************************************************************************)
(* Time-series splits: TrainingDataLoader.create_time_series_splits and    *)
(* the TimeSeriesSplit of ModelTrainer._cross_validate. Dates are days.    *)
(***************************************************************************)
\* the overall start dates are the days 0..MaxStart
MaxStart == 2
\* the overall end date is at most MaxSpan days after the start date
MaxSpan == 40
\* the training sets of _cross_validate have at most MaxSamples rows
MaxSamples == 14

Min(a, b) == IF a <= b THEN a ELSE b

\* create_time_series_splits with the test period starting on train_end
CreateTimeSeriesSplitsNoGap(start_date, end_date, n_splits, test_days) ==
    LET total_days == end_date - start_date
        split_size == total_days \div (n_splits + 1)
    IN  [i \in 1..n_splits |->
            LET train_end == start_date + split_size * i
                test_start == train_end
            IN  <<start_date, train_end, test_start,
                  Min(test_start + test_days, end_date)>>]

\* create_time_series_splits: the tuples (train_start, train_end, test_start,
\* test_end), range(n_splits) being 0..n_splits - 1
CreateTimeSeriesSplits(start_date, end_date, n_splits, test_days) ==
    LET total_days == end_date - start_date
        split_size == total_days \div (n_splits + 1)
    IN  [i \in 1..n_splits |->
            LET train_end == start_date + split_size * i
                test_start == train_end + 1
            IN  <<start_date, train_end, test_start,
                  Min(test_start + test_days, end_date)>>]

\* whether TimeSeriesSplit(n_splits).split raises: more folds than samples
TooFewSamples(n_samples, n_splits) == n_splits + 1 > n_samples

\* TimeSeriesSplit(n_splits).split(X) on n_samples rows: the folds, each the
\* positions (from 0) of its training rows and of its test rows
TimeSeriesSplit(n_samples, n_splits) ==
    LET test_size == n_samples \div (n_splits + 1)
    IN  [k \in 1..n_splits |->
            LET test_start == n_samples - n_splits * test_size + (k - 1) * test_size
            IN  [train |-> 0..(test_start - 1),
                 test  |-> test_start..(test_start + test_size - 1)]]

\* n_splits of create_time_series_splits (default 5) and n_cv_folds
SplitCounts == {5, 3}

\* test_days of create_time_series_splits (default 14)
TestDays == {14, 2}

\* loader.create_time_series_splits(start_date, end_date, n_splits, test_days)
CreateSplits(start_date, end_date, n_splits, test_days) ==
    /\ calc' = [op         |-> "create_time_series_splits",
                start_date |-> start_date,
                end_date   |-> end_date,
                n_splits   |-> n_splits,
                splits     |-> CreateTimeSeriesSplits(start_date, end_date,
                                                      n_splits, test_days)]
    /\ UNCHANGED <<box, batch, ens, regVars, swapVars, featVars, predVars, serveVars>>

\* trainer._cross_validate(model, X, y, n_splits) on n_samples rows: the
\* folds the models are fitted and scored on, or the ValueError of split
CrossValidate(n_samples, n_splits) ==
    /\ calc' = [op        |-> "cross_validate",
                n_samples |-> n_samples,
                n_splits  |-> n_splits,
                raised    |-> IF TooFewSamples(n_samples, n_splits)
                              THEN "ValueError" ELSE None,
                folds     |-> IF TooFewSamples(n_samples, n_splits) THEN << >>
                              ELSE TimeSeriesSplit(n_samples, n_splits)]
    /\ UNCHANGED <<box, batch, ens, regVars, swapVars, featVars, predVars, serveVars>>

SplitNext ==
    \/ \E s \in 0..MaxStart, d \in 0..MaxSpan, n \in SplitCounts, t \in TestDays :
           CreateSplits(s, s + d, n, t)
    \/ \E m \in 0..MaxSamples, n \in SplitCounts : CrossValidate(m, n)

SpecSplit == Init /\ [][SplitNext]_vars

C21_FoldsWitness ==
    /\ calc.op = "cross_validate"
    /\ Len(calc.folds) = 5
    /\ \A k \in 1..5 : calc.folds[k].train # {} /\ calc.folds[k].test # {}

(***************************************************************************)
(* The rolling and form features over histories longer than the windows.   *)
(***************************************************************************)
\* the histories handed to the feature builders have 1..MaxGames games
MaxGames == 31

\* a row of a game the player did not score in: every counter 0
ZeroLine ==
    [points |-> 0, assists |-> 0, turnovers |-> 0, minutes |-> 0,
     field_goals_made |-> 0, field_goals_attempted |-> 0,
     free_throws_attempted |-> 0, fantasy_points |-> 0]

\* the stat lines of the games of a history
HistoryLines == <<StatLines[1], StatLines[2], ZeroLine>>

\* the DataFrame _get_player_stats returns for g games on the dates 1..g, the
\* last k of them with the stat line b, those before with the stat line a
History(g, k, a, b) ==
    [i \in 1..g |->
        StatRecord([game_date |-> i,
                    line |-> IF i > g - k THEN HistoryLines[b] ELSE HistoryLines[a]])]

\* self._build_rolling_features(stats)
BuildRolling(g, k, a, b) ==
    /\ calc' = [op |-> "build_rolling_features", g |-> g, k |-> k, a |-> a, b |-> b,
                features |-> BuildRollingFeatures(History(g, k, a, b))]
    /\ UNCHANGED <<box, batch, ens, regVars, swapVars, featVars, predVars, serveVars>>

\* one call on a new FeatureEngineer
RollingNext ==
    \E g \in 1..MaxGames, a \in 1..Len(HistoryLines), b \in 1..Len(HistoryLines) :
        \E k \in 0..g : calc = NoCalc /\ a # b /\ BuildRolling(g, k, a, b)

SpecRolling == Init /\ [][RollingNext]_vars

\* the value of the column in a game with the stat line
ValueOf(line, col) == OrZero(HistoryLines[line][col])

\* the total of the column over the n most recent games of the history of
\* the call: the last k games have the stat line b
TotalOfRecent(c, col, n) ==
    Min(n, c.k) * ValueOf(c.b, col) + (n - Min(n, c.k)) * ValueOf(c.a, col)

\* C22: for every window size N of 3, 5, 10, 15, 30 and every history of
\* g >= 1 games, each {stat}_avg_{N}g is the mean over exactly the
\* min(N, g) most recent games, and each shooting percentage is total made /
\* total attempted over the same games, 0.0 when nothing was attempted.
C22_RollingOverMostRecent ==
    calc.op = "build_rolling_features" =>
        \A w \in {3, 5, 10, 15, 30} :
            LET n == Min(w, calc.g)
            IN  /\ \A col \in Range(StatColumns) :
                       calc.features[col \o "_avg_" \o ToString(w) \o "g"]
                           = Rat(TotalOfRecent(calc, col, n), n)
                /\ \A rc \in Range(RatioColumns) :
                       calc.features[rc[1] \o "_" \o ToString(w) \o "g"]
                           = IF TotalOfRecent(calc, rc[3], n) = 0 THEN Zero
                             ELSE Rat(TotalOfRecent(calc, rc[2], n),
                                      TotalOfRecent(calc, rc[3], n))

\* C22 witness: 31 games, the last 4 with another stat line than those
\* before: the window of 3 lies within them, those of 5 to 30 reach beyond
\* them, and none covers the first game
C22_Witness ==
    /\ calc.op = "build_rolling_features"
    /\ calc.g = 31
    /\ calc.k = 4
    /\ calc.features["points_avg_3g"] # calc.features["points_avg_5g"]
    /\ calc.features["points_avg_5g"] # calc.features["points_avg_10g"]
    /\ calc.features["points_avg_15g"] # calc.features["points_avg_30g"]
    /\ calc.features["points_avg_30g"] # Rat(TotalOfRecent(calc, "points", 31), 31)

\* C22 witness for a window without attempts within a history with attempts
C22_NoAttemptWitness ==
    /\ calc.op = "build_rolling_features"
    /\ calc.g > 5
    /\ calc.features["field_goal_pct_3g"] = Zero
    /\ calc.features["field_goal_pct_5g"] # Zero

\* self._build_form_features(stats)
BuildForm(g, k, a, b) ==
    /\ calc' = [op |-> "build_form_features", g |-> g, k |-> k, a |-> a, b |-> b,
                features |-> BuildFormFeatures(History(g, k, a, b))]
    /\ UNCHANGED <<box, batch, ens, regVars, swapVars, featVars, predVars, serveVars>>

\* one call on a new FeatureEngineer
FormNext ==
    \E g \in 1..MaxGames, a \in 1..Len(HistoryLines), b \in 1..Len(HistoryLines) :
        \E k \in 0..g : calc = NoCalc /\ BuildForm(g, k, a, b)

SpecForm == Init /\ [][FormNext]_vars

\* the fantasy points of the j-th game from the end of the history of the
\* call, j = 0 for the last
FantasyPointsFromEnd(c, j) ==
    IF j < c.k THEN ValueOf(c.b, "fantasy_points") ELSE ValueOf(c.a, "fantasy_points")

C27_ColdWitness ==
    /\ calc.op = "build_form_features"
    /\ calc.g > 3
    /\ calc.features["cold_streak"]

\* C27 witness: the last three games equal the mean, which is not 0
C27_EqualWitness ==
    /\ calc.op = "build_form_features"
    /\ calc.g >= 3
    /\ TotalOfRecent(calc, "fantasy_points", calc.g) > 0
    /\ \A j \in 0..2 : FantasyPointsFromEnd(calc, j) * calc.g
                           = TotalOfRecent(calc, "fantasy_points", calc.g)
    /\ ~calc.features["hot_streak"]
    /\ ~calc.features["cold_streak"]

\* C27 witness: two of the last three games above the mean, one below it
C27_MixedWitness ==
    /\ calc.op = "build_form_features"
    /\ calc.k = 2
    /\ FantasyPointsFromEnd(calc, 0) > FantasyPointsFromEnd(calc, 2)
    /\ ~calc.features["hot_streak"]

\* C27 witness: fewer than three games
C27_FewGamesWitness ==
    /\ calc.op = "build_form_features"
    /\ calc.g = 2
    /\ calc.k = 1
    /\ calc.a # calc.b

(***************************************************************************)
(* The names of the features of a vector.                                  *)
(***************************************************************************)
\* the names of the features of a vector built of a history of 10 games or
\* more
FeatureNames ==
    {"player_position_pg", "player_position_sg", "player_position_sf",
     "player_position_pf", "player_position_c", "player_age"}
    \cup {col \o "_avg_" \o ToString(w) \o "g" :
              col \in Range(StatColumns), w \in Range(RollingWindows)}
    \cup {rc[1] \o "_" \o ToString(w) \o "g" :
              rc \in Range(RatioColumns), w \in Range(RollingWindows)}
    \cup {col \o "_trend" : col \in Range(StatColumns)}
    \cup {col \o "_cv" : col \in Range(StatColumns)}
    \cup {col \o "_std" : col \in Range(StatColumns)}
    \cup {"games_played", "avg_minutes_season", "fga_per_game", "fta_per_game",
          "ast_to_ratio", "days_rest", "games_last_7d", "games_last_14d",
          "back_to_back", "hot_streak", "cold_streak", "fantasy_momentum"}

\* engineer.build_player_features(player_id, as_of_date) with the g games of
\* the history in the lookback window, the as-of date the day after the last
BuildVector(player_id, g, k, a, b) ==
    /\ calc' = [op |-> "build_player_features", player_id |-> player_id,
                g |-> g, k |-> k, a |-> a, b |-> b,
                features |-> FeaturesOf(PlayerRow(player_id), History(g, k, a, b),
                                        g + 1, today)]
    /\ UNCHANGED <<box, batch, ens, regVars, swapVars, featVars, predVars, serveVars>>

\* one call on a new FeatureEngineer
VectorNext ==
    \E p \in Players, g \in 0..MaxGames, a \in 1..Len(HistoryLines),
       b \in 1..Len(HistoryLines) :
        \E k \in {0, Min(g, 1)} : calc = NoCalc /\ BuildVector(p, g, k, a, b)

SpecVector == Init /\ [][VectorNext]_vars

\* C28: build_player_features returns the same set of feature names for
\* every history size: the default vector of an empty history and the
\* vectors built of fewer than 3 and of fewer than 10 games have exactly the
\* keys of a vector built of a full history.
C28_SameFeatureNames ==
    calc.op = "build_player_features" => DOMAIN calc.features = FeatureNames

\* C28 witness: a vector built of two games, below the thresholds of the
\* trend and of the form features
C28_Witness ==
    /\ calc.op = "build_player_features"
    /\ calc.g = 2
    /\ calc.features["games_played"] = Rat(2, 1)
    /\ DOMAIN calc.features = FeatureNames

\* C28 witness: the default vector
C28_EmptyWitness ==
    /\ calc.op = "build_player_features"
    /\ calc.g = 0
    /\ IsDefaultVector(calc.features)

\* C28 witness: a vector with trends
C28_FullWitness ==
    /\ calc.op = "build_player_features"
    /\ calc.g >= 10
    /\ calc.features["points_trend"] # Zero
    /\ calc.features["fantasy_momentum"] # Zero


(***************************************************************************)
(* predict_player, and the three prediction methods on a predictor that    *)
(* was constructed and then fitted or loaded, or neither.                  *)
(***************************************************************************)
\* the outputs of an underlying regressor for the features of the player
PlayerRaws == {r * Unit : r \in ((0 - 1)..MaxRaw) \cup {24, 30, 36}}

PredictorClasses == {"StatPredictor", "LightGBMPredictor", "EnsemblePredictor"}

\* the PredictionResult of predict_player, as an output
ReturnedResult(cls, o) ==
    ("confidence" :> Confidence(o.point, o.lower, o.upper))
        @@ Returned(cls, "predict_player", o.point, o.lower, o.upper)

\* StatPredictor.predict_player
StatPredictorPredictPlayer(fitted, quantiles, raw, raw_lower, raw_upper) ==
    LET o == StatPredictorPredictWithUncertainty(fitted, quantiles, raw,
                                                 raw_lower, raw_upper)
    IN  IF o.raised # None
        THEN Raised("StatPredictor", "predict_player", o.raised)
        ELSE ReturnedResult("StatPredictor", o)

\* LightGBMPredictor defines no predict_player, and BasePredictor has none
LightGBMPredictorPredictPlayer(fitted, raw) ==
    Raised("LightGBMPredictor", "predict_player", "AttributeError")

\* EnsemblePredictor.predict_player
EnsemblePredictorPredictPlayer(fitted, weights, xgb_pred, lgb_pred) ==
    LET o == EnsemblePredictorPredictWithUncertainty(fitted, weights,
                                                     xgb_pred, lgb_pred)
    IN  IF o.raised # None
        THEN Raised("EnsemblePredictor", "predict_player", o.raised)
        ELSE ReturnedResult("EnsemblePredictor", o)

\* model.predict(X) on a new predictor object of class cls
PredictOn(cls, fitted, weights, raw, raw_upper) ==
    /\ out = NoOutput
    /\ out' = ("fitted" :> fitted) @@
              (CASE cls = "StatPredictor" -> StatPredictorPredict(fitted, raw)
                 [] cls = "LightGBMPredictor" -> LightGBMPredictorPredict(fitted, raw)
                 [] OTHER -> EnsemblePredictorPredict(fitted, weights, raw, raw_upper))
    /\ UNCHANGED notPredVars

\* model.predict_with_uncertainty(X) on a new predictor object of class cls
PredictWithUncertaintyOn(cls, fitted, quantiles, weights, raw, raw_lower, raw_upper) ==
    /\ out = NoOutput
    /\ out' = ("fitted" :> fitted) @@
              (CASE cls = "StatPredictor" ->
                        StatPredictorPredictWithUncertainty(fitted, quantiles, raw,
                                                            raw_lower, raw_upper)
                 [] cls = "LightGBMPredictor" ->
                        LightGBMPredictorPredictWithUncertainty(fitted, raw)
                 [] OTHER ->
                        EnsemblePredictorPredictWithUncertainty(fitted, weights,
                                                                raw, raw_upper))
    /\ UNCHANGED notPredVars

\* model.predict_player(...) on a new predictor object of class cls
PredictPlayerOn(cls, fitted, quantiles, weights, raw, raw_lower, raw_upper) ==
    /\ out = NoOutput
    /\ out' = ("fitted" :> fitted) @@
              (CASE cls = "StatPredictor" ->
                        StatPredictorPredictPlayer(fitted, quantiles, raw,
                                                   raw_lower, raw_upper)
                 [] cls = "LightGBMPredictor" ->
                        LightGBMPredictorPredictPlayer(fitted, raw)
                 [] OTHER ->
                        EnsemblePredictorPredictPlayer(fitted, weights, raw, raw_upper))
    /\ UNCHANGED notPredVars

PlayerNext ==
    \/ \E cls \in PredictorClasses, fitted \in BOOLEAN, weights \in WeightChoices,
          raw \in PlayerRaws, raw_upper \in PlayerRaws :
          PredictOn(cls, fitted, weights, raw, raw_upper)
    \/ \E cls \in PredictorClasses, fitted \in BOOLEAN, quantiles \in BOOLEAN,
          weights \in WeightChoices,
          raw \in PlayerRaws, raw_lower \in PlayerRaws, raw_upper \in PlayerRaws :
          PredictWithUncertaintyOn(cls, fitted, quantiles, weights,
                                   raw, raw_lower, raw_upper)
    \/ \E cls \in PredictorClasses, fitted \in BOOLEAN, quantiles \in BOOLEAN,
          weights \in WeightChoices,
          raw \in PlayerRaws, raw_lower \in PlayerRaws, raw_upper \in PlayerRaws :
          PredictPlayerOn(cls, fitted, quantiles, weights,
                          raw, raw_lower, raw_upper)

SpecPlayer == Init /\ [][PlayerNext]_vars

\* 1 - (upper - lower) / (2 * point) is at most x thousandths
FormulaAtMost(x, point, lower, upper) ==
    IF point > 0 THEN (Unit - x) * 2 * point <= (upper - lower) * Unit
    ELSE (Unit - x) * 2 * point >= (upper - lower) * Unit

\* 1 - (upper - lower) / (2 * point) is at least x thousandths
FormulaAtLeast(x, point, lower, upper) ==
    IF point > 0 THEN (Unit - x) * 2 * point >= (upper - lower) * Unit
    ELSE (Unit - x) * 2 * point <= (upper - lower) * Unit

\* c is the formula clamped to 0..1, to a thousandth
IsClampedFormula(c, point, lower, upper) ==
    /\ c > 0 => FormulaAtLeast(c - 1, point, lower, upper)
    /\ c < Unit => FormulaAtMost(c + 1, point, lower, upper)

\* C23: every result of predict_player has a confidence between 0 and 1,
\* which for a point prediction other than 0 is
\* 1 - (upper - lower) / (2 * point) clamped to 0..1 (to a thousandth: the
\* code divides by point + 1e-6); point 30, lower 24, upper 36 gives 0.8
\* within 0.01
C23_ConfidenceIsClampedFormula ==
    (out.op = "predict_player" /\ out.raised = None) =>
        /\ 0 <= out.confidence /\ out.confidence <= Unit
        /\ out.point # 0 =>
               IsClampedFormula(out.confidence, out.point, out.lower, out.upper)
        /\ (out.point = 30 * Unit /\ out.lower = 24 * Unit /\ out.upper = 36 * Unit)
               => Abs(out.confidence - 800) <= 10

\* the example: a single model with quantile regressors giving 30, 24, 36
C23_Witness ==
    /\ out.op = "predict_player" /\ out.raised = None
    /\ out.cls = "StatPredictor"
    /\ out.point = 30 * Unit /\ out.lower = 24 * Unit /\ out.upper = 36 * Unit
    /\ out.confidence = 800

\* an ensemble result strictly inside 0..1
C23_EnsembleWitness ==
    /\ out.op = "predict_player" /\ out.raised = None
    /\ out.cls = "EnsemblePredictor"
    /\ out.point > 0
    /\ 0 < out.confidence /\ out.confidence < Unit

\* an interval wider than twice the point is clamped to 0
C23_ClampedLowWitness ==
    /\ out.op = "predict_player" /\ out.raised = None
    /\ out.point > 0 /\ out.upper - out.lower > 2 * out.point
    /\ out.confidence = 0

\* a negative point prediction is clamped to 1
C23_ClampedHighWitness ==
    /\ out.op = "predict_player" /\ out.raised = None
    /\ out.point < 0 /\ out.upper > out.lower
    /\ out.confidence = Unit

\* C25: predict, predict_with_uncertainty and predict_player on a predictor
\* of any of the three classes that was neither fitted nor loaded raise an
\* error and return no prediction
C25_UnfittedRaises ==
    (out.cls # None /\ ~out.fitted) =>
        /\ out.raised \in {"ValueError", "AttributeError"}
        /\ out.point = 0 /\ out.lower = 0 /\ out.upper = 0
        /\ "confidence" \notin DOMAIN out

C25_Witness ==
    /\ out.cls = "StatPredictor" /\ out.op = "predict"
    /\ ~out.fitted /\ out.raised = "ValueError"

\* the ensemble's predict_with_uncertainty has no check of its own
C25_EnsembleWitness ==
    /\ out.cls = "EnsemblePredictor" /\ out.op = "predict_with_uncertainty"
    /\ ~out.fitted /\ out.raised = "AttributeError"

C25_PlayerWitness ==
    /\ out.cls \in {"StatPredictor", "EnsemblePredictor"}
    /\ out.op = "predict_player"
    /\ ~out.fitted /\ out.raised # None

\* the same calls return once the predictor is fitted
C25_FittedWitness ==
    /\ out.cls = "LightGBMPredictor" /\ out.op = "predict_with_uncertainty"
    /\ out.fitted /\ out.raised = None /\ out.point > 0


(***************************************************************************)
(* The fantasy points of a stat line, at ingestion and at validation.      *)
(* A stat line is a dict: a key can be absent, None (Null) or a count.     *)
(* The points are computed in thousandths and returned in tenths.          *)
(***************************************************************************)
\* the largest count of a stat, next to those of the example
MaxStat == 1

FantasyKeys == <<"points", "rebounds", "assists", "steals", "blocks", "turnovers">>

\* points 20, rebounds 10, assists 5, steals 2, blocks 1, turnovers 3
ExampleLine == [points |-> 20, rebounds |-> 10, assists |-> 5,
                steals |-> 2, blocks |-> 1, turnovers |-> 3]

\* the values a stat line can hold under a key, next to those of the example
StatValues == {Null} \cup (0..MaxStat)

\* stats.get(key): None when the key is absent
DictGet(stats, key) == IF key \in DOMAIN stats THEN stats[key] ELSE Null

\* stats.get(key, 0)
DictGetOrZero(stats, key) == IF key \in DOMAIN stats THEN stats[key] ELSE 0

\* round(x, 1) of a value in thousandths, in tenths: to the nearest tenth,
\* a tie to the even one
RoundOneDecimal(x) ==
    LET q == x \div 100
        r == x % 100
    IN  IF r < 50 THEN q
        ELSE IF r > 50 THEN q + 1
        ELSE IF q % 2 = 0 THEN q ELSE q + 1

\* the same sum with rebounds counted once
CalculateFantasyPointsPlainRebounds(stats) ==
    LET v(key) == OrZero(DictGet(stats, key))
    IN  RoundOneDecimal(v("points") * 1000 + v("rebounds") * 1000
                        + v("assists") * 1500 + v("steals") * 3000
                        + v("blocks") * 3000 + v("turnovers") * (0 - 1000))

\* BoxScoreService._calculate_fantasy_points
BoxScoreServiceCalculateFantasyPoints(stats) ==
    LET pts == OrZero(DictGet(stats, "points"))
        reb == OrZero(DictGet(stats, "rebounds"))
        ast == OrZero(DictGet(stats, "assists"))
        stl == OrZero(DictGet(stats, "steals"))
        blk == OrZero(DictGet(stats, "blocks"))
        tov == OrZero(DictGet(stats, "turnovers"))
    IN  RoundOneDecimal(pts * 1000 + reb * 1200 + ast * 1500
                        + stl * 3000 + blk * 3000 + tov * (0 - 1000))

\* GameStatsValidator._calculate_fantasy_points
GameStatsValidatorCalculateFantasyPoints(stats) ==
    LET pts == OrZero(DictGetOrZero(stats, "points"))
        reb == OrZero(DictGetOrZero(stats, "rebounds"))
        ast == OrZero(DictGetOrZero(stats, "assists"))
        stl == OrZero(DictGetOrZero(stats, "steals"))
        blk == OrZero(DictGetOrZero(stats, "blocks"))
        tov == OrZero(DictGetOrZero(stats, "turnovers"))
    IN  RoundOneDecimal(pts * 1000 + reb * 1200 + ast * 1500
                        + (stl * 3 + blk * 3 - tov) * 1000)

\* both functions on one stat line
CalculateFantasyPoints(stats) ==
    /\ calc = NoCalc
    /\ calc' = [op |-> "fantasy_points", stats |-> stats,
                ingestion |-> BoxScoreServiceCalculateFantasyPoints(stats),
                validation |-> GameStatsValidatorCalculateFantasyPoints(stats)]
    /\ UNCHANGED <<box, batch, ens, regVars, swapVars, featVars, predVars, serveVars>>

FantasyNext ==
    /\ calc = NoCalc
    /\ \E present \in SUBSET {FantasyKeys[i] : i \in DOMAIN FantasyKeys} :
           \E stats \in [present -> StatValues] \cup {[k \in present |-> ExampleLine[k]]} :
               CalculateFantasyPoints(stats)

SpecFantasy == Init /\ [][FantasyNext]_vars

\* the count under a key, an absent key or None counting as 0
CountOf(stats, key) ==
    IF key \in DOMAIN stats /\ stats[key] # Null THEN stats[key] ELSE 0

\* C24: for every stat line the fantasy points of ingestion and of
\* validation are equal, and are points + 1.2 rebounds + 1.5 assists
\* + 3 steals + 3 blocks - turnovers to one decimal (here in tenths), a
\* missing stat counting as 0; the example line gives 45.5 and an all-zero
\* line 0.0
C24_FantasyPointsAgree ==
    calc.op = "fantasy_points" =>
        /\ calc.ingestion = calc.validation
        /\ calc.ingestion = 10 * CountOf(calc.stats, "points")
                            + 12 * CountOf(calc.stats, "rebounds")
                            + 15 * CountOf(calc.stats, "assists")
                            + 30 * CountOf(calc.stats, "steals")
                            + 30 * CountOf(calc.stats, "blocks")
                            - 10 * CountOf(calc.stats, "turnovers")
        /\ calc.stats = ExampleLine => calc.ingestion = 455
        /\ (\A k \in DOMAIN calc.stats : calc.stats[k] = 0) => calc.ingestion = 0

\* the example of the test
C24_Witness ==
    /\ calc.op = "fantasy_points"
    /\ calc.stats = ExampleLine
    /\ calc.ingestion = 455 /\ calc.validation = 455

\* all six stats present and zero
C24_ZeroWitness ==
    /\ calc.op = "fantasy_points"
    /\ DOMAIN calc.stats = {FantasyKeys[i] : i \in DOMAIN FantasyKeys}
    /\ \A k \in DOMAIN calc.stats : calc.stats[k] = 0
    /\ calc.ingestion = 0

\* a line with an absent key and a None among counts
C24_MissingWitness ==
    /\ calc.op = "fantasy_points"
    /\ "rebounds" \notin DOMAIN calc.stats
    /\ "assists" \in DOMAIN calc.stats /\ calc.stats["assists"] = Null
    /\ calc.ingestion > 0 /\ calc.ingestion = calc.validation

\* a value that is not a whole number of points
C24_TenthsWitness ==
    /\ calc.op = "fantasy_points"
    /\ calc.ingestion % 10 = 5
    /\ calc.stats # ExampleLine

\* more turnovers than anything else: a negative value
C24_NegativeWitness ==
    /\ calc.op = "fantasy_points"
    /\ calc.ingestion < 0 /\ calc.ingestion = calc.validation


(***************************************************************************)
(* train_model on the table: the two windows it loads, the alignment of    *)
(* the feature columns, and what it registers.                             *)
(***************************************************************************)
\* config["validation_days"], in days of the model
ValidationDays == 1

\* config["lookback_days"]: all the days of the model
TrainLookbackDays == MaxDay

\* the training examples of players other than the modelled ones, all of
\* games before val_start: none, or as many as the sample check asks for
OtherSamples == {0, MinTrainSamples}

\* the failures of train_model after fit the table does not decide
LaterFailures == {None, "evaluate"}

\* the (player, game date) of the rows of X
KeysOf(X) == [i \in DOMAIN X |-> <<X[i].player_id, X[i].game_date>>]

\* X.columns of a DataFrame made of the rows of X and of `others` rows more;
\* pd.DataFrame([]) has no columns
ColumnsOf(X, others) ==
    IF Len(X) > 0 THEN DOMAIN X[1].features
    ELSE IF others > 0 THEN FeatureNames
    ELSE {}

\* model.fit accepting data without a column
FitOutcomeAnyColumns(common_features, fail) == fail

\* model.fit(X_train[common_features], ...): XGBRegressor.fit raises on data
\* without a column ("0 feature is supplied"); otherwise fit and the steps
\* after it fail as `fail` says
FitOutcome(common_features, fail) ==
    IF common_features = {} THEN "fit" ELSE fail

\* trainer.train_model("fantasy_points", end_date, "ensemble") on the table
TrainModelOnTable(end_date, others, fail) ==
    /\ calc = NoCalc
    /\ now < MaxNow
    /\ LET start_date == end_date - TrainLookbackDays
           val_start == end_date - ValidationDays
       IN  \E X_train \in {LoadTrainingLists(game_stats, start_date, val_start,
                                             "fantasy_points", MinGames, {}, today).X} :
           \E X_val \in {IF Len(X_train) + others < MinTrainSamples THEN << >>
                         ELSE LoadTrainingLists(game_stats, val_start, end_date,
                                                "fantasy_points", 1, {}, today).X} :
             LET n_train == Len(X_train) + others
                 common_features == ColumnsOf(X_train, others) \cap ColumnsOf(X_val, 0)
                 failure == FitOutcome(common_features, fail)
                 raised == TrainRaises(n_train, failure)
             IN  /\ registry' = TrainRegistry(registry, "fantasy_points", "ensemble",
                                              n_train, failure, now)
                 /\ files' = TrainFiles(files, "fantasy_points", "ensemble",
                                        n_train, failure, now)
                 /\ index_file' = IF raised = None
                                  THEN SaveRegistry(registry') ELSE index_file
                 /\ last' = [NoCall EXCEPT
                                !.op = "train",
                                !.ok = (raised = None),
                                !.raised = raised,
                                !.stat_type = "fantasy_points",
                                !.model_type = "ensemble",
                                !.prior = Len(registry),
                                !.model = IF raised = None
                                          THEN TrainedModel("fantasy_points", "ensemble", now)
                                          ELSE NoModel]
                 /\ calc' = [op |-> "train_model",
                             start_date |-> start_date, val_start |-> val_start,
                             end_date |-> end_date,
                             training |-> KeysOf(X_train),
                             validation |-> KeysOf(X_val),
                             loaded_validation |-> (n_train >= MinTrainSamples),
                             train_columns |-> ColumnsOf(X_train, others),
                             val_columns |-> ColumnsOf(X_val, 0),
                             features |-> common_features,
                             registry_before |-> registry,
                             files_before |-> files]
    /\ now' = now + 1
    /\ svc' = NoSvc
    /\ UNCHANGED <<swapVars, featVars, predVars, serveVars, batch, ens, box>>

\* a box score is ingested before the training run
IngestBeforeTraining(player_id, game_date, line) ==
    /\ calc = NoCalc
    /\ Ingest(player_id, game_date, line)

TableNext ==
    \/ \E p \in Players, d \in Days, l \in TwoLines : IngestBeforeTraining(p, d, l)
    \/ \E end_date \in Days, others \in OtherSamples, fail \in LaterFailures :
           TrainModelOnTable(end_date, others, fail)

SpecTable == Init /\ [][TableNext]_vars

C26_AlignedWitness ==
    /\ calc.op = "train_model"
    /\ Len(calc.validation) > 0
    /\ calc.train_columns = calc.val_columns
    /\ last.ok /\ Len(registry) = 1 /\ registry[1].is_active

\* C29: the training window and the validation window of train_model share
\* no game date: no row of the table yields both a training example and a
\* validation example
C29_WindowsShareNoGame ==
    (calc.op = "train_model" /\ calc.loaded_validation) =>
        /\ Range(calc.training) \cap Range(calc.validation) = {}
        /\ \A a \in Range(calc.training), b \in Range(calc.validation) : a[2] # b[2]

\* a game on val_start is an example of both sets
C29_SharedGameWitness ==
    /\ calc.op = "train_model" /\ calc.loaded_validation
    /\ \E k \in Range(calc.training) \cap Range(calc.validation) : k[2] = calc.val_start

\* the only date the windows share is val_start
C29_OnlyValStartShared ==
    (calc.op = "train_model" /\ calc.loaded_validation) =>
        \A a \in Range(calc.training), b \in Range(calc.validation) :
            a[2] = b[2] => a[2] = calc.val_start


(***************************************************************************)
(* Box-score ingestion.  Every task opens a session of its own; a session  *)
(* reads the committed rows and its own pending ones, and its inserts and  *)
(* updates reach the table when it commits.  The table has no unique       *)
(* constraint on (player_id, game_id).                                     *)
(***************************************************************************)
\* the most ingestion tasks that are started
MaxRuns == 3

\* the game the tasks ingest
BoxGame == "0022400001"

\* the PLAYER_ID entries of the box score of the game: a player of the
\* players table and one who is not in it
BoxScoreStats == <<1, NoSuchPlayer>>

\* the stat line the API returns for the game at the n-th run
LineOfRun(n) == ((n - 1) % 2) + 1

\* query(PlayerGameStats).filter(player_id == ..., game_id == ...).first() on
\* a list of rows: the position of the first match, 0 for None
FirstMatch(rows, player_id, game_id) ==
    IF \E i \in DOMAIN rows : rows[i].player_id = player_id /\ rows[i].game_id = game_id
    THEN CHOOSE i \in DOMAIN rows :
             /\ rows[i].player_id = player_id /\ rows[i].game_id = game_id
             /\ \A j \in 1..(i - 1) :
                    ~(rows[j].player_id = player_id /\ rows[j].game_id = game_id)
    ELSE 0

\* the sessions that are open
OpenSessions == {s \in DOMAIN box.sessions : box.sessions[s].pc = "open"}

\* a task starts: get_db_session(), the box score or the game log is
\* fetched, the lookups are built
StartTask(kind) ==
    /\ Len(box.sessions) < MaxRuns
    /\ box' = [box EXCEPT !.sessions =
                  Append(@, [kind |-> kind,
                             stats |-> IF kind = "boxscore" THEN BoxScoreStats ELSE <<1>>,
                             line |-> LineOfRun(Len(box.sessions) + 1),
                             i |-> 1, pc |-> "open",
                             pending |-> << >>, updates |-> {},
                             created |-> 0, updated |-> 0, skipped |-> 0,
                             started_with |-> OpenSessions,
                             rows_at_start |-> Len(box.rows)])]
    /\ UNCHANGED <<calc, batch, ens, regVars, swapVars, featVars, predVars, serveVars>>

\* the session after the select and the insert or update of one stat of
\* player_id: _upsert_player_game_stat and _process_game_log_entry alike
Upserted(ss, rows, player_id) ==
    IF player_id \notin Players
    THEN [ss EXCEPT !.i = @ + 1, !.skipped = @ + 1]
    ELSE IF FirstMatch(rows, player_id, BoxGame) # 0
    THEN [ss EXCEPT !.i = @ + 1, !.updated = @ + 1,
                    !.updates = @ \cup {FirstMatch(rows, player_id, BoxGame)}]
    ELSE IF FirstMatch(ss.pending, player_id, BoxGame) # 0
    THEN [ss EXCEPT !.i = @ + 1, !.updated = @ + 1]
    ELSE [ss EXCEPT !.i = @ + 1, !.created = @ + 1,
                    !.pending = Append(@, [player_id |-> player_id,
                                           game_id |-> BoxGame,
                                           line |-> ss.line])]

\* ingest_boxscore: _upsert_player_game_stat of the next stat of the box score
UpsertPlayerGameStat(s) ==
    /\ box.sessions[s].pc = "open" /\ box.sessions[s].kind = "boxscore"
    /\ box.sessions[s].i <= Len(box.sessions[s].stats)
    /\ box' = [box EXCEPT !.sessions[s] =
                  Upserted(@, box.rows, box.sessions[s].stats[box.sessions[s].i])]
    /\ UNCHANGED <<calc, batch, ens, regVars, swapVars, featVars, predVars, serveVars>>

\* backfill_player_history: _process_game_log_entry of the game
ProcessGameLogEntry(s) ==
    /\ box.sessions[s].pc = "open" /\ box.sessions[s].kind = "backfill"
    /\ box.sessions[s].i <= Len(box.sessions[s].stats)
    /\ box' = [box EXCEPT !.sessions[s] =
                  Upserted(@, box.rows, box.sessions[s].stats[box.sessions[s].i])]
    /\ UNCHANGED <<calc, batch, ens, regVars, swapVars, featVars, predVars, serveVars>>

\* self.db.commit() after the loop, and the counts the run returns
CommitSession(s) ==
    /\ box.sessions[s].pc = "open"
    /\ box.sessions[s].i > Len(box.sessions[s].stats)
    /\ box' = [rows |-> [i \in DOMAIN box.rows |->
                            IF i \in box.sessions[s].updates
                            THEN [box.rows[i] EXCEPT !.line = box.sessions[s].line]
                            ELSE box.rows[i]]
                        \o box.sessions[s].pending,
               sessions |-> [box.sessions EXCEPT ![s].pc = "closed"],
               reports |-> Append(box.reports,
                                  [run |-> s,
                                   created |-> box.sessions[s].created,
                                   updated |-> box.sessions[s].updated])]
    /\ UNCHANGED <<calc, batch, ens, regVars, swapVars, featVars, predVars, serveVars>>

BoxNext ==
    \/ \E kind \in {"boxscore", "backfill"} : StartTask(kind)
    \/ \E s \in DOMAIN box.sessions : UpsertPlayerGameStat(s)
    \/ \E s \in DOMAIN box.sessions : ProcessGameLogEntry(s)
    \/ \E s \in DOMAIN box.sessions : CommitSession(s)

SpecBox == Init /\ [][BoxNext]_vars

\* the rows of the table for the player and the game
RowsOf(player_id, game_id) ==
    {i \in DOMAIN box.rows : /\ box.rows[i].player_id = player_id
                             /\ box.rows[i].game_id = game_id}

\* the table holds at most one row per (player_id, game_id)
OneRowPerPlayerAndGame ==
    \A p \in Players : Cardinality(RowsOf(p, BoxGame)) <= 1

\* a run that started when a row of the player was committed reports it as
\* updated
RepeatedRunsReportUpdated ==
    \A r \in DOMAIN box.reports :
        box.sessions[box.reports[r].run].rows_at_start > 0 =>
            /\ box.reports[r].created = 0
            /\ box.reports[r].updated = 1

\* C30: after any number of ingest_boxscore and backfill runs for the same
\* game, also of tasks that run at the same time in sessions of their own,
\* the table holds at most one row per (player_id, game_id), and a repeated
\* run reports the row as updated, not created
C30_IngestionIdempotent ==
    /\ OneRowPerPlayerAndGame
    /\ RepeatedRunsReportUpdated

\* two tasks that both selected before either committed both insert
C30_DuplicateWitness ==
    /\ Cardinality(RowsOf(1, BoxGame)) = 2
    /\ \A r \in DOMAIN box.reports : box.reports[r].created = 1

\* runs none of which started while another was open keep one row
C30_SequentialRunsKeepOneRow ==
    (\A s \in DOMAIN box.sessions : box.sessions[s].started_with = {})
        => OneRowPerPlayerAndGame

\* a repeated run reports updated, whatever runs beside it
C30_RepeatedRunReportsUpdated == RepeatedRunsReportUpdated

\* a second run after the first committed: one row, with the line of the
\* second run, reported as updated
C30_RepeatedRunWitness ==
    /\ Len(box.reports) = 2
    /\ box.sessions[2].started_with = {}
    /\ box.reports[2].created = 0 /\ box.reports[2].updated = 1
    /\ Len(box.rows) = 1 /\ box.rows[1].line = LineOfRun(2)

====
